---- MODULE Spec2Model ----
(***************************************************************************)
(* A model of the submission service: the PDF checker                      *)
(* (service/pdf_checker.py), the reminder mails (service/email_sender.py)  *)
(* and the search for missing reviews (service/openreview_client.py).      *)
(*                                                                         *)
(* Texts are TLA+ strings, read character by character.  The regular      *)
(* expressions of the program are written as syntax trees and matched by  *)
(* a backtracking matcher that lists the ends of the matches in the order *)
(* Python's re tries them, so that search, match and finditer are         *)
(* computed as the program computes them.                                 *)
(***************************************************************************)
EXTENDS Integers, Sequences, FiniteSets, TLC

VARIABLES
    pc,             \* position in the function that runs
    file,           \* the document on disk: its path, its pages, what can be read
    paper_type,     \* "short" | "long"
    page_texts,     \* local of check_pdf / argument of calculate_content_pages
    full_text,      \* local of check_pdf / the text argument of a detector
    total_pages,    \* local of check_pdf
    content_pages,  \* local of check_pdf / argument of _check_page_limits
    content_end,    \* local of _calculate_content_pages: <<>> for None
    issues,         \* local of check_pdf / the list a detector returns
    result,         \* the PDFCheckResult returned, or None
    directory,      \* check_directory: [exists |-> ..., pdf_files |-> the files]
    file_idx,       \* check_directory: files gone through
    results,        \* check_directory: the list of results
    missing_entries, \* send_reminder_emails: the entries to remind
    test_email,     \* send_reminder_emails: the test address, or None
    smtp,           \* the SMTP server: [login_ok |-> ..., rejects |-> calls refused]
    entry_idx,      \* send_reminder_emails: entries gone through
    sendmail_calls, \* the recipients handed to server.sendmail, in order
    email_results,  \* send_reminder_emails: the list of result tuples
    client,         \* the OpenReview data get_missing_reviews reads
    paper_ids,      \* get_missing_reviews: the papers asked for
    paper_idx,      \* get_missing_reviews: papers gone through
    paper_missing,  \* get_missing_reviews: the entries collected
    missing,        \* get_missing_reviews: the list returned, or None
    properties,     \* the properties read of a PDFCheckResult, or None
    options,        \* missing-reviews: [send_email, test_email, post_comment]
    prompts,        \* missing-reviews: the confirmations asked, with the answers
    comment_calls,  \* missing-reviews: the calls of post_ac_comment, with results
    posted          \* the notes handed to client.post_note_edit, in order

pdf_vars == <<file, paper_type, page_texts, full_text, total_pages,
              content_pages, content_end, issues, result>>
dir_vars == <<directory, file_idx, results>>
mail_vars == <<missing_entries, test_email, smtp, entry_idx, sendmail_calls,
               email_results>>
review_vars == <<client, paper_ids, paper_idx, paper_missing, missing>>
property_vars == <<properties>>
cli_vars == <<options, prompts, comment_calls, posted>>

vars == <<pc, pdf_vars, dir_vars, mail_vars, review_vars, property_vars,
          cli_vars>>

None == "None"

\* the parts of the state that a run of another function leaves as they are
NoFile == [path |-> "", ok |-> TRUE, pages |-> <<>>, readable |-> 0]
NoDirectory ==
    /\ directory = [exists |-> FALSE, pdf_files |-> <<>>]
    /\ file_idx = 0
    /\ results = <<>>
NoMail ==
    /\ missing_entries = <<>>
    /\ test_email = None
    /\ smtp = [login_ok |-> FALSE, rejects |-> {}]
    /\ entry_idx = 0
    /\ sendmail_calls = <<>>
    /\ email_results = <<>>
NoReviews ==
    /\ client = [papers |-> <<>>]
    /\ paper_ids = <<>>
    /\ paper_idx = 0
    /\ paper_missing = <<>>
    /\ missing = None
NoProperties == properties = None
NoCli ==
    /\ options = None
    /\ prompts = <<>>
    /\ comment_calls = <<>>
    /\ posted = <<>>

(***************************************************************************)
(* Characters                                                              *)
(***************************************************************************)
UpperCase == "ABCDEFGHIJKLMNOPQRSTUVWXYZ"
LowerCase == "abcdefghijklmnopqrstuvwxyz"
Digits == "0123456789"

CharsOf(w) == {SubSeq(w, k, k) : k \in 1..Len(w)}

UpperSet == CharsOf(UpperCase)
LowerSet == CharsOf(LowerCase)
\* \d
DigitSet == CharsOf(Digits)
\* \s, and the characters str.strip() and str.split() treat as blank
SpaceSet == {" ", "\t", "\n", "\r", "\f"}
\* \w
WordSet == UpperSet \cup LowerSet \cup DigitSet \cup {"_"}

ToLowerMap == [c \in UpperSet |->
                 LET k == CHOOSE k \in 1..26 : SubSeq(UpperCase, k, k) = c
                 IN  SubSeq(LowerCase, k, k)]
ToUpperMap == [c \in LowerSet |->
                 LET k == CHOOSE k \in 1..26 : SubSeq(LowerCase, k, k) = c
                 IN  SubSeq(UpperCase, k, k)]

ToLower(c) == IF c \in UpperSet THEN ToLowerMap[c] ELSE c
ToUpper(c) == IF c \in LowerSet THEN ToUpperMap[c] ELSE c

\* the character after offset i of s ("" past the end)
CharAt(s, i) == IF i >= 0 /\ i < Len(s) THEN SubSeq(s, i + 1, i + 1) ELSE ""

(***************************************************************************)
(* Python string methods                                                   *)
(***************************************************************************)
\* s.lower(), character by character (halving keeps the recursion shallow)
RECURSIVE lower(_)
lower(s) ==
    IF Len(s) = 0 THEN ""
    ELSE IF Len(s) = 1 THEN ToLower(s)
    ELSE LET h == Len(s) \div 2
         IN  lower(SubSeq(s, 1, h)) \o lower(SubSeq(s, h + 1, Len(s)))

RECURSIVE lstrip(_)
lstrip(s) == IF s # "" /\ Head(s) \in SpaceSet THEN lstrip(Tail(s)) ELSE s

RECURSIVE rstrip(_)
rstrip(s) ==
    IF s # "" /\ CharAt(s, Len(s) - 1) \in SpaceSet
    THEN rstrip(SubSeq(s, 1, Len(s) - 1))
    ELSE s

strip(s) == rstrip(lstrip(s))

\* s.split(sep) for a one-character sep
RECURSIVE split_on(_, _)
split_on(s, sep) ==
    LET at == {k \in 1..Len(s) : SubSeq(s, k, k) = sep}
    IN  IF at = {} THEN <<s>>
        ELSE LET k == CHOOSE k \in at : \A j \in at : k <= j
             IN  <<SubSeq(s, 1, k - 1)>> \o split_on(SubSeq(s, k + 1, Len(s)), sep)

\* len(s.split()): the number of maximal runs of non-blank characters
word_count(s) ==
    Cardinality({k \in 1..Len(s) :
                    /\ SubSeq(s, k, k) \notin SpaceSet
                    /\ (k = 1 \/ SubSeq(s, k - 1, k - 1) \in SpaceSet)})

\* s.replace(a, b) for one-character a and b
RECURSIVE replace(_, _, _)
replace(s, a, b) ==
    IF Len(s) = 0 THEN ""
    ELSE IF Len(s) = 1 THEN (IF s = a THEN b ELSE s)
    ELSE LET h == Len(s) \div 2
         IN  replace(SubSeq(s, 1, h), a, b) \o replace(SubSeq(s, h + 1, Len(s)), a, b)

\* w in s
contains(s, w) ==
    \E i \in 0..(Len(s) - Len(w)) : SubSeq(s, i + 1, i + Len(w)) = w

\* s[a:b] for 0 <= a, b <= len(s)
slice(s, a, b) == SubSeq(s, a + 1, b)

Max(a, b) == IF a >= b THEN a ELSE b
Min(a, b) == IF a <= b THEN a ELSE b

(***************************************************************************)
(* Regular expressions (Python's re): syntax trees and a backtracking      *)
(* matcher.  Every repetition in the program's patterns is over a single   *)
(* character class, so a repetition node carries the class and its bounds. *)
(***************************************************************************)
Inf == 0 - 1

\* a literal string
Lit(w) == [k |-> "lit", w |-> w]
\* a character class, repeated greedily lo..hi times (hi = Inf: no upper bound)
Rep(cs, lo, hi) == [k |-> "rep", cs |-> cs, neg |-> FALSE, lo |-> lo, hi |-> hi]
\* a negated character class [^...], or "." (any character but the newline)
RepNot(cs, lo, hi) == [k |-> "rep", cs |-> cs, neg |-> TRUE, lo |-> lo, hi |-> hi]
One(cs) == Rep(cs, 1, 1)
Opt(c) == Rep({c}, 0, 1)
Star(cs) == Rep(cs, 0, Inf)
Plus(cs) == Rep(cs, 1, Inf)
DotStar == RepNot({"\n"}, 0, Inf)
Cat(rs) == [k |-> "cat", rs |-> rs]
Alt(rs) == [k |-> "alt", rs |-> rs]
Bol == [k |-> "bol"]
Eol == [k |-> "eol"]
Wb == [k |-> "wb"]

\* the flags of a call
NoFlags == [ic |-> FALSE, ml |-> FALSE]
IGNORECASE == [ic |-> TRUE, ml |-> FALSE]
IGNORECASE_MULTILINE == [ic |-> TRUE, ml |-> TRUE]

InClass(c, r, f) ==
    /\ c # ""
    /\ LET in == \/ c \in r.cs
                 \/ f.ic /\ (ToLower(c) \in r.cs \/ ToUpper(c) \in r.cs)
       IN  IF r.neg THEN ~in ELSE in

LitAt(w, s, i, f) ==
    /\ i + Len(w) <= Len(s)
    /\ \A k \in 1..Len(w) :
          LET a == SubSeq(w, k, k)
              b == SubSeq(s, i + k, i + k)
          IN  a = b \/ (f.ic /\ ToLower(a) = ToLower(b))

\* ^ : the start of the string, and with MULTILINE after every newline
AtBol(s, i, f) == i = 0 \/ (f.ml /\ CharAt(s, i - 1) = "\n")
\* $ : the end of the string or before a final newline, and with MULTILINE
\* before every newline
AtEol(s, i, f) ==
    \/ i = Len(s)
    \/ i = Len(s) - 1 /\ CharAt(s, i) = "\n"
    \/ f.ml /\ CharAt(s, i) = "\n"
\* \b : between a word character and a non-word character (or an end)
AtWb(s, i) == (CharAt(s, i - 1) \in WordSet) # (CharAt(s, i) \in WordSet)

\* how many characters from offset i on are in the class of r, counting to
\* hi: n are counted already (blocks of 16 keep the recursion shallow)
RECURSIVE Run(_, _, _, _, _)
Run(r, s, i, f, n) ==
    LET cap == IF r.hi = Inf THEN Len(s) - i ELSE Min(r.hi, Len(s) - i)
        step == Min(16, cap - n)
        out == {k \in 0..(step - 1) : ~InClass(CharAt(s, i + n + k), r, f)}
    IN  IF n >= cap THEN n
        ELSE IF out # {} THEN n + (CHOOSE k \in out : \A j \in out : k <= j)
        ELSE Run(r, s, i, f, n + step)

\* Ends(r, s, i, f): the offsets at which a match of r that starts at offset i
\* of s can end, in the order the backtracking matcher tries them.
RECURSIVE Ends(_, _, _, _), EndsCat(_, _, _, _, _), EndsFrom(_, _, _, _, _, _, _),
          EndsAlt(_, _, _, _, _)
Ends(r, s, i, f) ==
    CASE r.k = "lit" -> IF LitAt(r.w, s, i, f) THEN <<i + Len(r.w)>> ELSE <<>>
      [] r.k = "rep" -> LET n == Run(r, s, i, f, 0)
                        IN  IF n < r.lo THEN <<>>
                            ELSE [j \in 1..(n - r.lo + 1) |-> i + n - j + 1]
      [] r.k = "bol" -> IF AtBol(s, i, f) THEN <<i>> ELSE <<>>
      [] r.k = "eol" -> IF AtEol(s, i, f) THEN <<i>> ELSE <<>>
      [] r.k = "wb"  -> IF AtWb(s, i) THEN <<i>> ELSE <<>>
      [] r.k = "cat" -> EndsCat(r.rs, 1, s, i, f)
      [] r.k = "alt" -> EndsAlt(r.rs, 1, s, i, f)
\* the parts rs[k..] in sequence, from offset i
EndsCat(rs, k, s, i, f) ==
    IF k > Len(rs) THEN <<i>>
    ELSE LET es == Ends(rs[k], s, i, f)
         IN  EndsFrom(es, 1, Len(es), rs, k, s, f)
\* ... continued from each of the ends es[lo..hi] of part rs[k], in order
\* (halving keeps the recursion shallow)
EndsFrom(es, lo, hi, rs, k, s, f) ==
    IF lo > hi THEN <<>>
    ELSE IF lo = hi THEN EndsCat(rs, k + 1, s, es[lo], f)
    ELSE LET mid == (lo + hi) \div 2
         IN  EndsFrom(es, lo, mid, rs, k, s, f)
             \o EndsFrom(es, mid + 1, hi, rs, k, s, f)
\* the alternatives rs[k..], tried in order
EndsAlt(rs, k, s, i, f) ==
    IF k > Len(rs) THEN <<>>
    ELSE Ends(rs[k], s, i, f) \o EndsAlt(rs, k + 1, s, i, f)

\* re.match(r, s, flags): a match at the start of s
re_match(r, s, f) == Ends(r, s, 0, f) # <<>>

\* the first match starting at offset pos or later, as <<[start, end]>>;
\* <<>> when there is none
FirstMatchFrom(r, s, pos, f) ==
    LET starts == {p \in pos..Len(s) : Ends(r, s, p, f) # <<>>}
    IN  IF starts = {} THEN <<>>
        ELSE LET p == CHOOSE p \in starts : \A q \in starts : p <= q
             IN  <<[start |-> p, end |-> Ends(r, s, p, f)[1]]>>

\* re.search(r, s, flags) is not None
re_search(r, s, f) == \E p \in 0..Len(s) : Ends(r, s, p, f) # <<>>

\* list(re.finditer(r, s, flags)): the non-overlapping matches, left to right
RECURSIVE FindFrom(_, _, _, _)
FindFrom(r, s, pos, f) ==
    LET m == FirstMatchFrom(r, s, pos, f)
    IN  IF m = <<>> THEN <<>>
        ELSE m \o FindFrom(r, s, IF m[1].end = m[1].start THEN m[1].end + 1
                                                           ELSE m[1].end, f)

re_finditer(r, s, f) == FindFrom(r, s, 0, f)

\* match.group()
group(s, m) == slice(s, m.start, m.end)

(***************************************************************************)
(* Inputs                                                                  *)
(***************************************************************************)
PaperTypes == {"short", "long"}

\* the content-page counts handed to _check_page_limits: -MaxCount..MaxCount
MaxCount == 30

\* n copies of a line, each ended by a newline
RECURSIVE Repeat(_, _)
Repeat(line, n) == IF n <= 0 THEN "" ELSE line \o "\n" \o Repeat(line, n - 1)

\* The lines that pages are made of.
ProseLine == "a b c d"
PlainLine == "a b c"
ShortLine == "x"
RefLine == "[2] a b"

\* the bounds of the page families
MaxProse == 6
MaxShort == 11
MaxLead == 2
MaxPages == 3
MaxRefLines == 8
MaxPlainLines == 3

\* a page that opens with a prose lines and b short lines
Fill(a, b) == Repeat(ProseLine, a) \o Repeat(ShortLine, b)

\* what a page can go on with after its opening lines: a header, a numbered
\* list with 2, 1 and 0 list lines after its first, list lines out of the
\* window, a bracket list, a lone first item before a header
Tails == {
    "References",
    "Limitations\na b c d",
    "1. Smith A\n2. Jones B\n3. Kim C",
    "1. Smith A\n2. Jones B",
    "1. Smith A\nx\nx\nx\n[4] Roe",
    "1. Smith A\nx\nx\nx\nx\n[5] Doe\n[6] Roe",
    "1. Smith A\nx\nAppendix A",
    "1. Smith A",
    "[1] Doe J" }

BoundaryPages ==
    {Fill(a, b) \o "References" : a \in 0..MaxProse, b \in 0..MaxShort}
    \cup {Repeat(PlainLine, a) \o "References" : a \in 0..MaxProse}
    \cup {Fill(a, 0) \o t : a \in {0, MaxProse}, t \in Tails}

\* pages without a boundary line
PlainPage == "a b c d\nx"
EmptyPage == ""
BlankPage == " \n\t\n"
ReferencePage == "[2] Doe J\n[3] Roe K\n4. Kim C D"
AppendixPage == "see appendix a\nsupplementary b c"
OneIndicatorPage == "see the appendix a b"
\* r reference lines among r + p lines of three words or more
RatioPage(r, p) == Repeat(RefLine, r) \o Repeat(PlainLine, p) \o ShortLine

FallbackPages ==
    {PlainPage, EmptyPage, ReferencePage, AppendixPage, RatioPage(7, 3)}

RECURSIVE Copies(_, _)
Copies(page, n) == IF n <= 0 THEN <<>> ELSE <<page>> \o Copies(page, n - 1)

RECURSIVE SeqsUpTo(_, _)
SeqsUpTo(S, n) ==
    IF n <= 0 THEN {<<>>}
    ELSE LET shorter == SeqsUpTo(S, n - 1)
         IN  shorter \cup {Append(q, x) : q \in shorter, x \in S}

\* the scenario of the specification: ten pages, the eighth with 15 prose
\* lines, a References header and 5 reference lines, then two pages of
\* references
ScenarioDoc ==
    Copies(PlainPage, 7)
    \o <<Repeat(ProseLine, 15) \o "References\n" \o Repeat(RefLine, 5)>>
    \o Copies(ReferencePage, 2)

DocSet ==
    {Copies(PlainPage, k) \o <<p>> \o t :
        k \in 0..MaxLead, p \in BoundaryPages, t \in {<<>>, <<ReferencePage>>}}
    \cup SeqsUpTo(FallbackPages, MaxPages)
    \cup {t \o <<RatioPage(r, q)>> :
            r \in 0..MaxRefLines, q \in 0..MaxPlainLines,
            t \in {<<>>, <<BlankPage>>, <<OneIndicatorPage>>}}
    \cup {ScenarioDoc}

\* the most lines of a text handed to a detector
MaxTextLines == 2

\* The lines of the texts handed to _check_limitations_section: headers of a
\* Limitations section, the word in a sentence, another header, another
\* header after the word, neither, nothing.
LimitationLines == {
    "Limitations",
    "6. LIMITATIONS",
    "  Limitation \t",
    "the limitations of x",
    "References",
    "no limitation References",
    "a b c",
    "" }

\* The lines of the texts handed to _check_ethical_considerations: headers
\* that several shapes match, that one shape matches, and lines none matches.
EthicsLines == {
    "Ethics",
    "5 Ethical Considerations",
    "EthicalConsiderations",
    "x 592 Ethical Considerations y",
    "see ethics",
    "ethics of x",
    "a b c" }

\* The texts handed to _check_broken_references: up to MaxPieces pieces one
\* after the other, and the scenario of the specification.
MaxPieces == 3
BrokenRefPieces == {"??", "?", "[", "]", "(", ")", "\n??", "a"}

RECURSIVE Concat(_)
Concat(q) == IF q = <<>> THEN "" ELSE Head(q) \o Concat(Tail(q))

ScenarioText == "results in ?? and also [??]"

BrokenRefTexts ==
    {Concat(q) : q \in SeqsUpTo(BrokenRefPieces, MaxPieces)} \cup {ScenarioText}

\* The texts handed to _check_anonymization: a core between two runs of a
\* character no pattern matches, the runs empty or about as long as the
\* context is wide.
MaxPadSlack == 1
Pad(n) == IF n <= 0 THEN "" ELSE Concat([i \in 1..n |-> "="])
PadLengths == {0} \cup (50 - MaxPadSlack)..(50 + MaxPadSlack)
AnonymizationCores == {
    "x@uni.edu",
    "{x@uni.edu}",
    "Foo University",
    "Author: Bob",
    "a@b.cc c@d.ee",
    "Dept\nx@uni.edu\n",
    "a b c" }
AnonymizationTexts ==
    {Pad(n) \o core \o Pad(m) :
        n \in PadLengths, m \in PadLengths, core \in AnonymizationCores}

(***************************************************************************)
(* PDFChecker.__init__: the patterns                                       *)
(***************************************************************************)
\* \s*  \s+  \d*  \d{1,3}  \d{1,4}  \d{3,4}
Ws == Star(SpaceSet)
Ws1 == Plus(SpaceSet)
Num == Star(DigitSet)
Num13 == Rep(DigitSet, 1, 3)
Num14 == Rep(DigitSet, 1, 4)
Num34 == Rep(DigitSet, 3, 4)
\* limitations?  ethical?\s+considerations?  ethicalconsiderations?  ethics?
\* references?  appendix\s*[a-z]?
limitations == Cat(<<Lit("limitation"), Opt("s")>>)
ethical_considerations ==
    Cat(<<Lit("ethica"), Opt("l"), Ws1, Lit("consideration"), Opt("s")>>)
ethicalconsiderations == Cat(<<Lit("ethicalconsideration"), Opt("s")>>)
ethics == Cat(<<Lit("ethic"), Opt("s")>>)
references == Cat(<<Lit("reference"), Opt("s")>>)
appendix == Cat(<<Lit("appendix"), Ws, Rep(LowerSet, 0, 1)>>)

\* ^\s*\[1\]
bracket_one_pattern == Cat(<<Bol, Ws, Lit("[1]")>>)
\* ^\s*1\.\s+[A-Z]
numbered_one_pattern == Cat(<<Bol, Ws, Lit("1."), Ws1, One(UpperSet)>>)

limitations_alternatives == <<
    Cat(<<Bol, Ws, Num, Opt("."), Ws, limitations, Ws, Eol>>),
    Cat(<<Bol, Ws, One(LowerSet), Opt(")"), Ws, limitations, Ws, Eol>>),
    Cat(<<Bol, Ws, Plus({"i", "v", "x", "l", "c", "d", "m"}), Opt("."), Ws,
          limitations, Ws, Eol>>),
    Cat(<<Bol, Ws, Num13, Lit("."), Ws, limitations, Ws, Eol>>),
    Cat(<<Bol, Ws, Num13, Ws1, limitations, Ws, Eol>>),
    Cat(<<Bol, Ws, limitations, Ws1>>),
    Cat(<<Wb, Num14, Ws1, limitations, Wb>>),
    Cat(<<Wb, limitations, Ws, Eol>>) >>

ethics_alternatives == <<
    Cat(<<Bol, Ws, Num, Opt("."), Ws, ethical_considerations, Ws, Eol>>),
    Cat(<<Bol, Ws, Num, Opt("."), Ws, ethicalconsiderations, Ws, Eol>>),
    Cat(<<Bol, Ws, Num14, Ws1, ethicalconsiderations, Ws1>>),
    Cat(<<Bol, Ws, Num, Opt("."), Ws, ethics, Ws, Eol>>),
    Cat(<<Bol, Ws, Num13, Lit("."), Ws, ethical_considerations, Ws, Eol>>),
    Cat(<<Bol, Ws, Num13, Ws1, ethical_considerations, Ws, Eol>>),
    Cat(<<Wb, Num14, Ws1, ethical_considerations, Wb>>),
    Cat(<<Wb, ethical_considerations, Ws, Eol>>),
    Cat(<<Wb, ethicalconsiderations, Ws, Eol>>),
    Cat(<<Wb, ethics, Ws, Eol>>) >>

references_alternatives == <<
    Cat(<<Bol, Ws, Num, Opt("."), Ws, references, Ws, Eol>>),
    Cat(<<Bol, Ws, Num, Opt("."), Ws, Lit("bibliography"), Ws, Eol>>),
    Cat(<<Bol, Ws, Num13, Lit("."), Ws, references, Ws, Eol>>),
    Cat(<<Bol, Ws, Num13, Ws1, references, Ws, Eol>>),
    Cat(<<Wb, Num14, Ws1, references, Wb>>),
    Cat(<<Wb, references, Ws1, Num34, Ws, Eol>>),
    Cat(<<Wb, references, Ws, Eol>>),
    bracket_one_pattern,
    numbered_one_pattern >>

appendix_alternatives == <<
    Cat(<<Bol, Ws, Num, Opt("."), Ws, appendix, Ws, Eol>>),
    Cat(<<Bol, Ws, Num, Opt("."), Ws, Lit("appendices"), Ws, Eol>>),
    Cat(<<Bol, Ws, Num13, Lit("."), Ws, appendix, Ws, Eol>>),
    Cat(<<Bol, Ws, Num13, Ws1, appendix, Ws, Eol>>),
    Cat(<<Bol, Ws, appendix, Ws, Lit(":")>>),
    Cat(<<Wb, Lit("supplementary"), Ws1, Lit("material"), Opt("s"), Ws, Eol>>),
    Cat(<<Wb, Lit("additional"), Ws1, Lit("results"), Ws, Eol>>) >>

\* self.section_patterns, compiled with re.IGNORECASE | re.MULTILINE
section_patterns ==
    Alt(limitations_alternatives \o ethics_alternatives
        \o references_alternatives \o appendix_alternatives)

\* [line.strip() for line in page_text.split('\n') if line.strip()]
RECURSIVE stripped_nonempty(_)
stripped_nonempty(ls) ==
    IF ls = <<>> THEN <<>>
    ELSE (IF strip(Head(ls)) # "" THEN <<strip(Head(ls))>> ELSE <<>>)
         \o stripped_nonempty(Tail(ls))

\* The pages and lines of the input families, and over them the values of
\* the two computations every scan repeats, computed once: page_lines and
\* section_patterns_search below look a known page or line up and compute
\* the others.
KnownPages == UNION {{d[i] : i \in 1..Len(d)} : d \in DocSet}
page_lines_table ==
    [page_text \in KnownPages |-> stripped_nonempty(split_on(page_text, "\n"))]
KnownLines ==
    UNION {{page_lines_table[p][i] : i \in 1..Len(page_lines_table[p])} :
              p \in KnownPages}
    \cup {strip(line) : line \in LimitationLines}
section_table ==
    [line \in KnownLines |-> re_search(section_patterns, line, IGNORECASE_MULTILINE)]

\* self.section_patterns.search(line) is not None
section_patterns_search(line) ==
    IF line \in KnownLines THEN section_table[line]
    ELSE re_search(section_patterns, line, IGNORECASE_MULTILINE)

(***************************************************************************)
(* The content-page classifier                                             *)
(***************************************************************************)
page_lines(page_text) ==
    IF page_text \in KnownPages THEN page_lines_table[page_text]
    ELSE stripped_nonempty(split_on(page_text, "\n"))

\* ^\s*\d+\.\s+[A-Z]   and   ^\s*\[\d+\]
numbered_reference_pattern ==
    Cat(<<Bol, Ws, Plus(DigitSet), Lit("."), Ws1, One(UpperSet)>>)
bracket_reference_pattern ==
    Cat(<<Bol, Ws, Lit("["), Plus(DigitSet), Lit("]")>>)

\* the window and the threshold of looks_like_reference_section
REFERENCE_WINDOW == 5
REFERENCE_THRESHOLD == 2
\* the thresholds of the mid-page test
MID_PAGE_LINE_INDEX == 10
MID_PAGE_WORDS == 3
MID_PAGE_PROSE_LINES == 5

\* one turn of the loop of looks_like_reference_section: is lines[i] counted
\* (i is the 0-based index of the code)
reference_like(lines, i) ==
    LET line == strip(lines[i + 1])
    IN  \/ re_match(numbered_reference_pattern, line, NoFlags)
        \/ re_match(bracket_reference_pattern, line, NoFlags)

\* a slip: the window starts after the candidate line
looks_like_reference_section_after(lines, start_idx) ==
    Cardinality({i \in (start_idx + 1)..(Min(start_idx + 1 + REFERENCE_WINDOW,
                                              Len(lines)) - 1) :
                    reference_like(lines, i)})
        >= REFERENCE_THRESHOLD

looks_like_reference_section(lines, start_idx) ==
    LET reference_count ==
            Cardinality({i \in start_idx..(Min(start_idx + REFERENCE_WINDOW,
                                               Len(lines)) - 1) :
                            reference_like(lines, i)})
    IN  reference_count >= REFERENCE_THRESHOLD

\* a slip: mid-page from line index 10 on
is_mid_page_from_10(lines, line_idx) ==
    \/ line_idx >= MID_PAGE_LINE_INDEX
    \/ /\ line_idx > 0
       /\ Cardinality({j \in 1..line_idx :
                          word_count(lines[j]) > MID_PAGE_WORDS})
            > MID_PAGE_PROSE_LINES

\* a slip: 5 lines of prose are enough
is_mid_page_at_5(lines, line_idx) ==
    \/ line_idx > MID_PAGE_LINE_INDEX
    \/ /\ line_idx > 0
       /\ Cardinality({j \in 1..line_idx :
                          word_count(lines[j]) > MID_PAGE_WORDS})
            >= MID_PAGE_PROSE_LINES

\* is_mid_page, as computed at both places of find_main_content_end
is_mid_page(lines, line_idx) ==
    \/ line_idx > MID_PAGE_LINE_INDEX
    \/ /\ line_idx > 0
       /\ Cardinality({j \in 1..line_idx :
                          word_count(lines[j]) > MID_PAGE_WORDS})
            > MID_PAGE_PROSE_LINES

\* the body of the inner loop for one line: does the scan return here
line_is_boundary(lines, line_idx) ==
    LET line == lines[line_idx + 1]
    IN  /\ section_patterns_search(line)
        /\ IF re_match(numbered_one_pattern, line, NoFlags)
           THEN looks_like_reference_section(lines, line_idx)
           ELSE TRUE

\* the loops of find_main_content_end, from (page_idx, line_idx) on:
\* <<page_idx, is_mid_page>> as a one-element sequence, or <<>> for None
RECURSIVE scan_from(_, _, _)
scan_from(texts, page_idx, line_idx) ==
    IF page_idx >= Len(texts) THEN <<>>
    ELSE LET lines == page_lines(texts[page_idx + 1])
         IN  IF line_idx >= Len(lines) THEN scan_from(texts, page_idx + 1, 0)
             ELSE IF line_is_boundary(lines, line_idx)
                  THEN <<[page_idx |-> page_idx,
                          is_mid_page |-> is_mid_page(lines, line_idx),
                          line_idx |-> line_idx]>>
                  ELSE scan_from(texts, page_idx, line_idx + 1)

\* a slip: the pages gone through from the last one back
find_main_content_end_backwards(texts) ==
    LET found == {p \in 1..Len(texts) : scan_from(<<texts[p]>>, 0, 0) # <<>>}
    IN  IF found = {} THEN <<>>
        ELSE LET p == CHOOSE p \in found : \A q \in found : q <= p
                 end == scan_from(<<texts[p]>>, 0, 0)[1]
             IN  <<[page_idx |-> p - 1, is_mid_page |-> end.is_mid_page,
                    line_idx |-> end.line_idx]>>

find_main_content_end(texts) == scan_from(texts, 0, 0)

\* the four shapes of a reference line in page_is_excluded_content
Year == Cat(<<Lit("("), One({"1", "2"}), Rep(DigitSet, 3, 3), Lit(")")>>)
reference_shapes == <<
    bracket_reference_pattern,
    numbered_reference_pattern,
    Cat(<<Bol, Ws, One(UpperSet), RepNot({"."}, 0, Inf), Lit("."), Ws, Year>>),
    Cat(<<Bol, Ws, One(UpperSet), RepNot({"."}, 0, Inf), Lit("."), Ws1,
          One(UpperSet), RepNot({"."}, 0, Inf), Lit("."), Ws1, Year>>) >>

appendix_indicators == <<
    Cat(<<Wb, Lit("appendix"), Wb>>),
    Cat(<<Wb, Lit("supplementary"), Wb>>),
    Cat(<<Wb, Lit("additional"), Ws1, Lit("results"), Wb>>),
    Cat(<<Wb, Lit("detailed"), Ws1, Lit("proofs"), Wb>>) >>

SUBSTANTIAL_WORDS == 3
APPENDIX_THRESHOLD == 2
\* reference_like_lines / total_substantial_lines > 0.7, in tenths
REFERENCE_RATIO_TENTHS == 7

looks_like_reference(line) ==
    \E k \in 1..Len(reference_shapes) : re_search(reference_shapes[k], line, NoFlags)

\* a slip: a page at exactly 70% is excluded too
page_is_excluded_content_at_70(page_text) ==
    LET lines == page_lines(page_text)
        substantial == {j \in 1..Len(lines) :
                           ~(word_count(lines[j]) < SUBSTANTIAL_WORDS)}
        reference_like_lines ==
            Cardinality({j \in substantial : looks_like_reference(lines[j])})
        appendix_matches ==
            Cardinality({k \in 1..Len(appendix_indicators) :
                            re_search(appendix_indicators[k], lower(page_text), NoFlags)})
    IN  \/ lines = <<>>
        \/ /\ Cardinality(substantial) > 0
           /\ 10 * reference_like_lines
                >= REFERENCE_RATIO_TENTHS * Cardinality(substantial)
        \/ appendix_matches >= APPENDIX_THRESHOLD

page_is_excluded_content(page_text) ==
    LET lines == page_lines(page_text)
        substantial == {j \in 1..Len(lines) :
                           ~(word_count(lines[j]) < SUBSTANTIAL_WORDS)}
        total_substantial_lines == Cardinality(substantial)
        reference_like_lines ==
            Cardinality({j \in substantial : looks_like_reference(lines[j])})
        text_lower == lower(page_text)
        appendix_matches ==
            Cardinality({k \in 1..Len(appendix_indicators) :
                            re_search(appendix_indicators[k], text_lower, NoFlags)})
    IN  IF lines = <<>> THEN TRUE
        ELSE IF /\ total_substantial_lines > 0
                /\ 10 * reference_like_lines
                     > REFERENCE_RATIO_TENTHS * total_substantial_lines
        THEN TRUE
        ELSE appendix_matches >= APPENDIX_THRESHOLD

\* content_end as _calculate_content_pages computes it (unbound, here <<>>,
\* when the list of pages is empty)
content_end_of(texts) ==
    IF texts = <<>> THEN <<>> ELSE find_main_content_end(texts)

\* a slip: no early return for an empty list of pages
calculate_content_pages_unguarded(texts) ==
    LET end == find_main_content_end(texts)
    IN  IF end # <<>>
        THEN IF end[1].is_mid_page
             THEN end[1].page_idx + 1
             ELSE end[1].page_idx
        ELSE Max(1, Cardinality({i \in 1..Len(texts) :
                                    ~page_is_excluded_content(texts[i])}))

\* a slip: the page index taken for the number of the page
calculate_content_pages_one_based(texts) ==
    IF texts = <<>> THEN 0
    ELSE LET end == content_end_of(texts)
         IN  IF end # <<>>
             THEN IF end[1].is_mid_page
                  THEN end[1].page_idx + 2
                  ELSE end[1].page_idx + 1
             ELSE Max(1, Cardinality({i \in 1..Len(texts) :
                                         ~page_is_excluded_content(texts[i])}))

calculate_content_pages(texts) ==
    IF texts = <<>> THEN 0
    ELSE LET end == content_end_of(texts)
         IN  IF end # <<>>
             THEN IF end[1].is_mid_page
                  THEN end[1].page_idx + 1
                  ELSE end[1].page_idx
             ELSE Max(1, Cardinality({i \in 1..Len(texts) :
                                         ~page_is_excluded_content(texts[i])}))

(***************************************************************************)
(* Issues and the detectors                                                *)
(***************************************************************************)
Issue(issue_type, severity, message, details) ==
    [issue_type |-> issue_type, severity |-> severity,
     message |-> message, details |-> details]

SHORT_LIMIT == 4
LONG_LIMIT == 8

\* a slip: an error already at the limit
check_page_limits_at_limit(pages, ptype) ==
    LET limit == IF ptype = "short" THEN SHORT_LIMIT ELSE LONG_LIMIT
    IN  IF pages >= limit
        THEN <<Issue("page_limit", "error", "Paper exceeds page limit", "")>>
        ELSE <<>>

check_page_limits(pages, ptype) ==
    LET limit == IF ptype = "short" THEN SHORT_LIMIT ELSE LONG_LIMIT
        paper_desc == IF ptype = "short" THEN "short paper" ELSE "long paper"
    IN  IF pages > limit
        THEN <<Issue("page_limit", "error",
                     "Paper exceeds page limit for " \o paper_desc,
                     "Found " \o ToString(pages) \o " content pages, limit is "
                         \o ToString(limit) \o " pages")>>
        ELSE IF pages = limit
        THEN <<Issue("page_limit", "info",
                     "Paper is at the page limit for " \o paper_desc,
                     ToString(pages) \o " content pages (limit: "
                         \o ToString(limit) \o ")")>>
        ELSE <<>>

\* a slip: any section header taken for a Limitations header
check_limitations_section_any_header(text) ==
    LET lines == split_on(text, "\n")
    IN  IF \E i \in 1..Len(lines) : section_patterns_search(strip(lines[i]))
        THEN <<>>
        ELSE <<Issue("missing_limitations", "error",
                     "Missing required 'Limitations' section",
                     "Papers must include a section discussing limitations")>>

\* a slip: a text of nothing taken for a text with nothing to report
check_limitations_section_unless_empty(text) ==
    IF text = "" THEN <<>>
    ELSE LET lines == split_on(text, "\n")
         IN  IF \E i \in 1..Len(lines) :
                   LET line_clean == strip(lines[i])
                   IN  /\ section_patterns_search(line_clean)
                       /\ contains(lower(line_clean), "limitation")
             THEN <<>>
             ELSE <<Issue("missing_limitations", "error",
                          "Missing required 'Limitations' section",
                          "Papers must include a section discussing limitations")>>

check_limitations_section(text) ==
    LET lines == split_on(text, "\n")
    IN  IF \E i \in 1..Len(lines) :
              LET line_clean == strip(lines[i])
              IN  /\ section_patterns_search(line_clean)
                  /\ contains(lower(line_clean), "limitation")
        THEN <<>>
        ELSE <<Issue("missing_limitations", "error",
                     "Missing required 'Limitations' section",
                     "Papers must include a section discussing limitations")>>

\* self.anonymization_patterns
AlnumDotDash == UpperSet \cup LowerSet \cup DigitSet \cup {".", "-"}
Domain ==
    Cat(<<Lit("@"), Plus(AlnumDotDash), Lit("."), Rep(UpperSet \cup LowerSet, 2, Inf)>>)
anonymization_patterns == <<
    Cat(<<Wb, One(UpperSet), Plus(LowerSet), Lit(" University"), Wb>>),
    Cat(<<Wb, One(UpperSet), Plus(LowerSet), Lit(" Institute"), Wb>>),
    Cat(<<Wb, One(UpperSet), Plus(LowerSet), Lit(" College"), Wb>>),
    Domain,
    Cat(<<Wb, Alt(<<Lit("Author"), Cat(<<Lit("Author"), Opt("s")>>)>>), Lit(":"),
          Ws, One(UpperSet)>>),
    Cat(<<Wb, Alt(<<Lit("Affiliation"), Lit("Department")>>), Lit(":"),
          Ws, One(UpperSet)>>),
    Cat(<<Lit("{"), Plus(LowerSet), Domain, Lit("}")>>) >>

\* the characters of context taken on each side of a match
CONTEXT_WIDTH == 50
ETHICS_CONTEXT_WIDTH == 30

\* a slip: the width of the ethics snippet for every snippet
context_of_ethics_width(text, m, width) ==
    strip(replace(slice(text, Max(0, m.start - ETHICS_CONTEXT_WIDTH),
                        Min(Len(text), m.end + ETHICS_CONTEXT_WIDTH)),
                  "\n", " "))

\* text[max(0, start - width):min(len(text), end + width)]
\*     .replace('\n', ' ').strip()
context_of(text, m, width) ==
    strip(replace(slice(text, Max(0, m.start - width),
                        Min(Len(text), m.end + width)), "\n", " "))

found_details(found, context) ==
    "Found: '" \o found \o "' in context: '..." \o context \o "...'"

\* the issues of the inner loop, for the matches ms of one pattern
match_issues(text, ms, issue_type, message) ==
    [i \in 1..Len(ms) |->
        Issue(issue_type, "warning", message,
              found_details(group(text, ms[i]),
                            context_of(text, ms[i], CONTEXT_WIDTH)))]

\* the outer loop over patterns[k..]
RECURSIVE pattern_issues(_, _, _, _, _)
pattern_issues(patterns, k, text, issue_type, message) ==
    IF k > Len(patterns) THEN <<>>
    ELSE match_issues(text, re_finditer(patterns[k], text, IGNORECASE),
                      issue_type, message)
         \o pattern_issues(patterns, k + 1, text, issue_type, message)

check_anonymization(text) ==
    pattern_issues(anonymization_patterns, 1, text, "anonymization",
                   "Potential anonymization issue detected")

broken_ref_patterns == <<
    Lit("??"),
    Cat(<<Lit("["), DotStar, Lit("??"), DotStar, Lit("]")>>),
    Cat(<<Lit("("), DotStar, Lit("??"), DotStar, Lit(")")>>) >>

\* a slip: the bracket and parenthesis patterns left out
check_broken_references_bare(text) ==
    pattern_issues(<<Lit("??")>>, 1, text, "broken_references",
                   "Broken reference detected")

check_broken_references(text) ==
    pattern_issues(broken_ref_patterns, 1, text, "broken_references",
                   "Broken reference detected")

\* ethical_patterns: the ten ethics alternatives of section_patterns, in the
\* same order
ethical_patterns == ethics_alternatives

\* a slip: no break, every match of every shape reported
RECURSIVE ethical_issues_from_every(_, _)
ethical_issues_from_every(k, text) ==
    IF k > Len(ethical_patterns) THEN <<>>
    ELSE LET matches == re_finditer(ethical_patterns[k], text,
                                    IGNORECASE_MULTILINE)
         IN  [i \in 1..Len(matches) |->
                 Issue("ethical_considerations", "warning",
                       "Ethical considerations section found",
                       found_details(strip(group(text, matches[i])),
                                     context_of(text, matches[i],
                                                ETHICS_CONTEXT_WIDTH)))]
             \o ethical_issues_from_every(k + 1, text)

\* a slip: the match that comes first in the text, whatever its pattern
ethical_issues_leftmost(k, text) ==
    LET first == [j \in k..Len(ethical_patterns) |->
                     FirstMatchFrom(ethical_patterns[j], text, 0,
                                    IGNORECASE_MULTILINE)]
        hits == {j \in k..Len(ethical_patterns) : first[j] # <<>>}
    IN  IF hits = {} THEN <<>>
        ELSE LET j == CHOOSE j \in hits :
                          \A i \in hits :
                              \/ first[j][1].start < first[i][1].start
                              \/ first[j][1].start = first[i][1].start /\ j <= i
             IN  <<Issue("ethical_considerations", "warning",
                         "Ethical considerations section found",
                         found_details(strip(group(text, first[j][1])),
                                       context_of(text, first[j][1],
                                                  ETHICS_CONTEXT_WIDTH)))>>

\* the loop over ethical_patterns[k..] while found_ethical is False
RECURSIVE ethical_issues_from(_, _)
ethical_issues_from(k, text) ==
    IF k > Len(ethical_patterns) THEN <<>>
    ELSE LET matches == FirstMatchFrom(ethical_patterns[k], text, 0,
                                       IGNORECASE_MULTILINE)
         IN  IF matches # <<>>
             THEN <<Issue("ethical_considerations", "warning",
                          "Ethical considerations section found",
                          found_details(strip(group(text, matches[1])),
                                        context_of(text, matches[1],
                                                   ETHICS_CONTEXT_WIDTH)))>>
             ELSE ethical_issues_from(k + 1, text)

check_ethical_considerations(text) == ethical_issues_from(1, text)

(***************************************************************************)
(* Direct calls of the helpers (as the unit tests make them)               *)
(***************************************************************************)
\* _check_page_limits(content_pages, paper_type)
InitPageLimits ==
    /\ pc = "call"
    /\ file = NoFile
    /\ paper_type \in PaperTypes
    /\ page_texts = <<>>
    /\ full_text = ""
    /\ total_pages = 0
    /\ content_pages \in (0 - MaxCount)..MaxCount
    /\ content_end = <<>>
    /\ issues = <<>>
    /\ result = None
    /\ NoDirectory
    /\ NoMail
    /\ NoReviews
    /\ NoProperties
    /\ NoCli

CallCheckPageLimits ==
    /\ pc = "call"
    /\ issues' = check_page_limits(content_pages, paper_type)
    /\ pc' = "ret"
    /\ UNCHANGED <<file, paper_type, page_texts, full_text, total_pages,
                   content_pages, content_end, result,
                   dir_vars, mail_vars, review_vars, property_vars, cli_vars>>

NextPageLimits == CallCheckPageLimits

SpecPageLimits == InitPageLimits /\ [][NextPageLimits]_vars

----------------------------------------------------------------------------
\* C1: _check_page_limits uses limit 4 for SHORT and 8 for LONG; it returns
\* exactly one page_limit issue of severity error when content_pages is above
\* the limit, exactly one of severity info when it equals the limit, and no
\* issue when it is below the limit.
C1_PageLimit ==
    pc = "ret" =>
        LET threshold == IF paper_type = "short" THEN 4 ELSE 8
        IN  /\ content_pages > threshold =>
                /\ Len(issues) = 1
                /\ issues[1].issue_type = "page_limit"
                /\ issues[1].severity = "error"
            /\ content_pages = threshold =>
                /\ Len(issues) = 1
                /\ issues[1].issue_type = "page_limit"
                /\ issues[1].severity = "info"
            /\ content_pages < threshold => issues = <<>>

C1_Witness ==
    /\ pc = "ret"
    /\ paper_type = "long"
    /\ content_pages = 8
    /\ Len(issues) = 1
    /\ issues[1].severity = "info"

----------------------------------------------------------------------------
\* _calculate_content_pages(page_texts)
InitContentPages ==
    /\ pc = "call"
    /\ file = NoFile
    /\ paper_type = "short"
    /\ page_texts \in DocSet
    /\ full_text = ""
    /\ total_pages = 0
    /\ content_pages = 0
    /\ content_end = <<>>
    /\ issues = <<>>
    /\ result = None
    /\ NoDirectory
    /\ NoMail
    /\ NoReviews
    /\ NoProperties
    /\ NoCli

CallCalculateContentPages ==
    /\ pc = "call"
    /\ content_end' = content_end_of(page_texts)
    /\ content_pages' = calculate_content_pages(page_texts)
    /\ pc' = "ret"
    /\ UNCHANGED <<file, paper_type, page_texts, full_text, total_pages,
                   issues, result,
                   dir_vars, mail_vars, review_vars, property_vars, cli_vars>>

NextContentPages == CallCalculateContentPages

SpecContentPages == InitContentPages /\ [][NextContentPages]_vars

\* The positions <<page index, line index>> (0-based) of the trimmed
\* non-empty lines of a document, their order, and the line at a position.
Positions(texts) ==
    UNION {{<<p, l>> : l \in 0..(Len(page_lines(texts[p + 1])) - 1)} :
              p \in 0..(Len(texts) - 1)}
Before(a, b) == a[1] < b[1] \/ (a[1] = b[1] /\ a[2] < b[2])
LinesAt(texts, pos) == page_lines(texts[pos[1] + 1])
LineAt(texts, pos) == LinesAt(texts, pos)[pos[2] + 1]

\* the lines the scan accepts, and the first of them
AcceptedAt(texts) ==
    {pos \in Positions(texts) : line_is_boundary(LinesAt(texts, pos), pos[2])}
IsFirstAccepted(texts, pos) ==
    /\ pos \in AcceptedAt(texts)
    /\ \A q \in AcceptedAt(texts) : ~Before(q, pos)

\* a line of the numbered-reference or the bracket-reference shape
HasReferenceShape(line) ==
    \/ re_match(numbered_reference_pattern, line, NoFlags)
    \/ re_match(bracket_reference_pattern, line, NoFlags)
\* a numbered-reference candidate: "1." + whitespace + a capital letter
IsCandidate(line) == re_match(numbered_one_pattern, line, NoFlags)
\* how many of the lines with index from..to of the page have the shape
ShapedLines(lines, from, to) ==
    Cardinality({i \in from..Min(to, Len(lines) - 1) : HasReferenceShape(lines[i + 1])})

\* the position content_end names
BoundaryPos == <<content_end[1].page_idx, content_end[1].line_idx>>

----------------------------------------------------------------------------
\* C2: when a boundary line is accepted it is the first accepted line in
\* (page, line) order, and the count is page_index + 1 if the boundary is
\* mid-page (line index > 10, or more than 5 of the lines before it on the
\* page have more than 3 words) and page_index otherwise; the ten-page
\* scenario yields 8.
C2_Boundary ==
    pc = "ret" =>
        /\ \A pos \in AcceptedAt(page_texts) :
              IsFirstAccepted(page_texts, pos) =>
                LET lines == LinesAt(page_texts, pos)
                    prose == {j \in 0..(pos[2] - 1) : word_count(lines[j + 1]) > 3}
                    mid == pos[2] > 10 \/ Cardinality(prose) > 5
                IN  /\ content_end # <<>>
                    /\ BoundaryPos = pos
                    /\ content_pages = IF mid THEN pos[1] + 1 ELSE pos[1]
        /\ content_end # <<>> => IsFirstAccepted(page_texts, BoundaryPos)
        /\ page_texts = ScenarioDoc => content_pages = 8

C2_Witness ==
    /\ pc = "ret"
    /\ page_texts = ScenarioDoc
    /\ content_end # <<>>
    /\ BoundaryPos = <<7, 15>>
    /\ content_pages = 8

MostlyReferences(page_text) ==
    LET lines == page_lines(page_text)
        long == {j \in 1..Len(lines) : word_count(lines[j]) >= 3}
        refs == {j \in long : looks_like_reference(lines[j])}
    IN  100 * Cardinality(refs) > 70 * Cardinality(long)
IndicatorCount(page_text) ==
    Cardinality({k \in 1..Len(appendix_indicators) :
                    re_search(appendix_indicators[k], lower(page_text), NoFlags)})
HasNoLine(page_text) == \A k \in 1..Len(page_text) : CharAt(page_text, k - 1) \in SpaceSet

\* C4 as stated: in the fallback a page is excluded exactly when (a) or (b).
C4_Original ==
    (pc = "ret" /\ page_texts # <<>> /\ content_end = <<>>) =>
        content_pages =
            Max(1, Cardinality({i \in 1..Len(page_texts) :
                    ~(MostlyReferences(page_texts[i])
                        \/ IndicatorCount(page_texts[i]) >= 2)}))

\* C4: when no boundary line is accepted the count is max(1, N), N the
\* number of pages not excluded; a page is excluded exactly when it has no
\* non-blank line, or (a) strictly more than 70% of its lines of at least 3
\* words are reference-like, or (b) at least 2 appendix indicators occur.
C4_Fallback ==
    (pc = "ret" /\ page_texts # <<>> /\ content_end = <<>>) =>
        content_pages =
            Max(1, Cardinality({i \in 1..Len(page_texts) :
                    ~(HasNoLine(page_texts[i])
                        \/ MostlyReferences(page_texts[i])
                        \/ IndicatorCount(page_texts[i]) >= 2)}))

\* a page at exactly 70% is counted beside a plain page, a page of
\* references is not
C4_Witness ==
    /\ pc = "ret"
    /\ content_end = <<>>
    /\ page_texts = <<PlainPage, RatioPage(7, 3), ReferencePage>>
    /\ content_pages = 2

(***************************************************************************)
(* PDFChecker.check_pdf                                                    *)
(***************************************************************************)
\* the pages a file is made of: prose, nothing, references, a Limitations
\* header after one line, a References header after MaxProse prose lines, a
\* References header on top of its list
HeaderEarlyPage == "a b c d\nLimitations\nx"
HeaderLatePage == Fill(MaxProse, 0) \o "References"
HeaderTopPage == "References\n[1] Doe J"
FilePages ==
    {PlainPage, EmptyPage, ReferencePage, HeaderEarlyPage, HeaderLatePage,
     HeaderTopPage}

\* the most pages of a file
MaxFilePages == 2

\* pages that the text detectors find something in, and the most pages of
\* prose before one of them
RichPages ==
    {"x@uni.edu\nsee [??]\nEthics", "Limitations\nFoo University",
     "Ethics\n??", "a b c d\n(??)"}
MaxPlainPages == 5
LongDocs ==
    {Copies(PlainPage, k) \o <<p>> : k \in 3..MaxPlainPages, p \in RichPages}

\* The files: pages are the pages of the file and readable the number of
\* them that extract_text gives the text of before it raises.  A file that
\* pdfplumber cannot open has no page.
Files ==
    {[path |-> "paper.pdf", ok |-> TRUE, pages |-> d, readable |-> Len(d)] :
        d \in SeqsUpTo(FilePages, MaxFilePages) \cup LongDocs}
    \cup {[path |-> "paper.pdf", ok |-> FALSE, pages |-> <<>>, readable |-> 0]}
    \cup UNION {{[path |-> "paper.pdf", ok |-> FALSE, pages |-> d,
                    readable |-> k] :
                    k \in 0..(Len(d) - 1)} :
                  d \in SeqsUpTo(FilePages, MaxFilePages)}

Init ==
    /\ pc = "start"
    /\ file \in Files
    /\ paper_type \in PaperTypes
    /\ page_texts = <<>>
    /\ full_text = ""
    /\ total_pages = 0
    /\ content_pages = 0
    /\ content_end = <<>>
    /\ issues = <<>>
    /\ result = None
    /\ NoDirectory
    /\ NoMail
    /\ NoReviews
    /\ NoProperties
    /\ NoCli

\* full_text += page_text + "\n", over the pages
RECURSIVE join_pages(_)
join_pages(pages) ==
    IF pages = <<>> THEN "" ELSE Head(pages) \o "\n" \o join_pages(Tail(pages))

\* pdfplumber.open(file_path) and total_pages = len(pdf.pages)
Open ==
    /\ pc = "start"
    /\ file.ok \/ file.pages # <<>>
    /\ total_pages' = Len(file.pages)
    /\ page_texts' = <<>>
    /\ full_text' = ""
    /\ pc' = "extracting"
    /\ UNCHANGED <<file, paper_type, content_pages, content_end, issues, result,
                   dir_vars, mail_vars, review_vars, property_vars, cli_vars>>

\* one turn of the extraction loop
ExtractPage ==
    /\ pc = "extracting"
    /\ Len(page_texts) < file.readable
    /\ LET page_text == file.pages[Len(page_texts) + 1]
       IN  /\ page_texts' = Append(page_texts, page_text)
           /\ full_text' = full_text \o page_text \o "\n"
    /\ UNCHANGED <<pc, file, paper_type, total_pages, content_pages,
                   content_end, issues, result,
                   dir_vars, mail_vars, review_vars, property_vars, cli_vars>>

\* the exception that pdfplumber.open or page.extract_text raises
Raised ==
    \/ pc = "start" /\ ~file.ok /\ file.pages = <<>>
    \/ pc = "extracting" /\ ~file.ok /\ Len(page_texts) = file.readable

ErrorText == IF pc = "start" THEN "cannot open" ELSE "cannot extract"

\* a slip: the counts left as they were when the exception was raised
FailKeepingCounts ==
    /\ Raised
    /\ issues' = Append(issues, Issue("page_limit", "error",
                                      "Failed to process PDF: " \o ErrorText,
                                      None))
    /\ pc' = "checked"
    /\ UNCHANGED <<file, paper_type, page_texts, full_text, total_pages,
                   content_pages, content_end, result,
                   dir_vars, mail_vars, review_vars, property_vars, cli_vars>>

\* the except clause
Fail ==
    /\ Raised
    /\ issues' = Append(issues, Issue("page_limit", "error",
                                      "Failed to process PDF: " \o ErrorText,
                                      None))
    /\ total_pages' = 0
    /\ content_pages' = 0
    /\ pc' = "checked"
    /\ UNCHANGED <<file, paper_type, page_texts, full_text, content_end, result,
                   dir_vars, mail_vars, review_vars, property_vars, cli_vars>>

CalculateContentPages ==
    /\ pc = "extracting"
    /\ file.ok
    /\ Len(page_texts) = Len(file.pages)
    /\ content_end' = content_end_of(page_texts)
    /\ content_pages' = calculate_content_pages(page_texts)
    /\ pc' = "counted"
    /\ UNCHANGED <<file, paper_type, page_texts, full_text, total_pages,
                   issues, result,
                   dir_vars, mail_vars, review_vars, property_vars, cli_vars>>

CheckPageLimits ==
    /\ pc = "counted"
    /\ issues' = issues \o check_page_limits(content_pages, paper_type)
    /\ pc' = "page_limits"
    /\ UNCHANGED <<file, paper_type, page_texts, full_text, total_pages,
                   content_pages, content_end, result,
                   dir_vars, mail_vars, review_vars, property_vars, cli_vars>>

CheckLimitationsSection ==
    /\ pc = "page_limits"
    /\ issues' = issues \o check_limitations_section(full_text)
    /\ pc' = "limitations"
    /\ UNCHANGED <<file, paper_type, page_texts, full_text, total_pages,
                   content_pages, content_end, result,
                   dir_vars, mail_vars, review_vars, property_vars, cli_vars>>

\* a slip: the issues of a detector put before the issues found so far
CheckAnonymizationFirst ==
    /\ pc = "limitations"
    /\ issues' = check_anonymization(full_text) \o issues
    /\ pc' = "anonymization"
    /\ UNCHANGED <<file, paper_type, page_texts, full_text, total_pages,
                   content_pages, content_end, result,
                   dir_vars, mail_vars, review_vars, property_vars, cli_vars>>

CheckAnonymization ==
    /\ pc = "limitations"
    /\ issues' = issues \o check_anonymization(full_text)
    /\ pc' = "anonymization"
    /\ UNCHANGED <<file, paper_type, page_texts, full_text, total_pages,
                   content_pages, content_end, result,
                   dir_vars, mail_vars, review_vars, property_vars, cli_vars>>

CheckBrokenReferences ==
    /\ pc = "anonymization"
    /\ issues' = issues \o check_broken_references(full_text)
    /\ pc' = "broken_references"
    /\ UNCHANGED <<file, paper_type, page_texts, full_text, total_pages,
                   content_pages, content_end, result,
                   dir_vars, mail_vars, review_vars, property_vars, cli_vars>>

CheckEthicalConsiderations ==
    /\ pc = "broken_references"
    /\ issues' = issues \o check_ethical_considerations(full_text)
    /\ pc' = "checked"
    /\ UNCHANGED <<file, paper_type, page_texts, full_text, total_pages,
                   content_pages, content_end, result,
                   dir_vars, mail_vars, review_vars, property_vars, cli_vars>>

\* return PDFCheckResult(...)
Return ==
    /\ pc = "checked"
    /\ result' = [file_path |-> file.path, paper_type |-> paper_type,
                  total_pages |-> total_pages,
                  content_pages |-> content_pages, issues |-> issues]
    /\ pc' = "returned"
    /\ UNCHANGED <<file, paper_type, page_texts, full_text, total_pages,
                   content_pages, content_end, issues,
                   dir_vars, mail_vars, review_vars, property_vars, cli_vars>>

Next ==
    \/ Open
    \/ ExtractPage
    \/ Fail
    \/ CalculateContentPages
    \/ CheckPageLimits
    \/ CheckLimitationsSection
    \/ CheckAnonymization
    \/ CheckBrokenReferences
    \/ CheckEthicalConsiderations
    \/ Return

Spec == Init /\ [][Next]_vars

----------------------------------------------------------------------------
\* C5: for an empty list of page texts _calculate_content_pages returns 0
\* (it does not raise), and check_pdf on a document of zero pages returns a
\* result with total_pages = 0 and content_pages = 0, with no issue of a
\* failure among its issues.
C5_ZeroPages ==
    /\ (pc = "counted" /\ page_texts = <<>>) => content_pages = 0
    /\ (pc = "returned" /\ file.ok /\ file.pages = <<>>) =>
          /\ result.total_pages = 0
          /\ result.content_pages = 0
          /\ \A i \in 1..Len(result.issues) :
                result.issues[i].issue_type # "page_limit"

C5_Witness ==
    /\ pc = "returned"
    /\ file.ok
    /\ file.pages = <<>>
    /\ result.content_pages = 0
    /\ Len(result.issues) = 1

\* C6: every result check_pdf returns, after a success and after a failure
\* it absorbed, has 0 <= content_pages <= total_pages.
C6_ContentWithinTotal ==
    pc = "returned" =>
        /\ 0 <= result.content_pages
        /\ result.content_pages <= result.total_pages
        /\ result.total_pages = (IF file.ok THEN Len(file.pages) ELSE 0)

\* a file counted in full, its boundary on its last page
C6_Witness ==
    /\ pc = "returned"
    /\ file.ok
    /\ content_end # <<>>
    /\ result.total_pages = MaxFilePages
    /\ result.content_pages = result.total_pages

\* an absorbed failure
C6_WitnessFailure ==
    /\ pc = "returned"
    /\ ~file.ok
    /\ result.total_pages = 0
    /\ result.content_pages = 0
    /\ Len(result.issues) = 1

----------------------------------------------------------------------------
\* C11: if opening the document or extracting the text of any page fails,
\* check_pdf raises nothing to its caller and returns a result with
\* total_pages = 0, content_pages = 0 and an issues list of exactly one issue,
\* of kind page_limit and severity error, whose message describes the
\* failure.
C11_AbsorbedFailure ==
    ~file.ok =>
        /\ pc \in {"start", "extracting", "checked", "returned"}
        /\ pc = "returned" =>
              /\ result.total_pages = 0
              /\ result.content_pages = 0
              /\ Len(result.issues) = 1
              /\ result.issues[1].issue_type = "page_limit"
              /\ result.issues[1].severity = "error"
              /\ \E e \in {"cannot open", "cannot extract"} :
                    result.issues[1].message = "Failed to process PDF: " \o e

\* the second page of a file of two fails after the first was read
C11_Witness ==
    /\ pc = "returned"
    /\ ~file.ok
    /\ Len(file.pages) = 2
    /\ Len(page_texts) = 1
    /\ result.total_pages = 0
    /\ result.issues[1].message = "Failed to process PDF: cannot extract"

\* a file that cannot be opened
C11_WitnessOpen ==
    /\ pc = "returned"
    /\ ~file.ok
    /\ file.pages = <<>>
    /\ result.issues[1].message = "Failed to process PDF: cannot open"

----------------------------------------------------------------------------
\* the place of a detector in the order check_pdf runs the detectors in
DetectorRank(issue_type) ==
    CASE issue_type = "page_limit" -> 1
      [] issue_type = "missing_limitations" -> 2
      [] issue_type = "anonymization" -> 3
      [] issue_type = "broken_references" -> 4
      [] issue_type = "ethical_considerations" -> 5

\* C12: in every successful check_pdf result the issues are ordered by
\* detector: page_limit issues before missing_limitations issues, before
\* anonymization issues, before broken_references issues, before
\* ethical_considerations issues; no issue of a later detector precedes an
\* issue of an earlier one.
C12_DetectorOrder ==
    (pc = "returned" /\ file.ok) =>
        \A i \in 1..Len(result.issues), j \in 1..Len(result.issues) :
            i < j => DetectorRank(result.issues[i].issue_type)
                        <= DetectorRank(result.issues[j].issue_type)

\* a result with issues of the five detectors, two of them of one detector
C12_Witness ==
    /\ pc = "returned"
    /\ file.ok
    /\ [i \in 1..Len(result.issues) |-> result.issues[i].issue_type] =
          <<"page_limit", "missing_limitations", "anonymization",
            "broken_references", "broken_references",
            "ethical_considerations">>

\* a result with an issue of every detector but the anonymization detector
C12_WitnessMissing ==
    /\ pc = "returned"
    /\ file.ok
    /\ {result.issues[i].issue_type : i \in 1..Len(result.issues)} =
          {"page_limit", "missing_limitations", "broken_references",
           "ethical_considerations"}

(***************************************************************************)
(* Direct calls of the text detectors (as the unit tests make them)        *)
(***************************************************************************)
\* _check_limitations_section(text), text the lines of page_texts, each
\* ended by a newline
InitLimitations ==
    /\ pc = "call"
    /\ file = NoFile
    /\ paper_type = "short"
    /\ page_texts \in SeqsUpTo(LimitationLines, MaxTextLines)
    /\ full_text = join_pages(page_texts)
    /\ total_pages = 0
    /\ content_pages = 0
    /\ content_end = <<>>
    /\ issues = <<>>
    /\ result = None
    /\ NoDirectory
    /\ NoMail
    /\ NoReviews
    /\ NoProperties
    /\ NoCli

CallCheckLimitationsSection ==
    /\ pc = "call"
    /\ issues' = check_limitations_section(full_text)
    /\ pc' = "ret"
    /\ UNCHANGED <<file, paper_type, page_texts, full_text, total_pages,
                   content_pages, content_end, result,
                   dir_vars, mail_vars, review_vars, property_vars, cli_vars>>

NextLimitations == CallCheckLimitationsSection

SpecLimitations == InitLimitations /\ [][NextLimitations]_vars

\* a trimmed line that the section pattern matches and that has the word
IsLimitationsHeader(line) ==
    /\ section_patterns_search(strip(line))
    /\ contains(lower(strip(line)), "limitation")

----------------------------------------------------------------------------
\* C7: _check_limitations_section returns the empty list if and only if at
\* least one line of the text, trimmed, matches the section pattern and
\* contains 'limitation' in any case; otherwise it returns exactly one issue,
\* missing_limitations of severity error. It never returns more than one.
C7_Limitations ==
    pc = "ret" =>
        /\ Len(issues) <= 1
        /\ issues = <<>> <=>
              \E i \in 1..Len(page_texts) : IsLimitationsHeader(page_texts[i])
        /\ issues # <<>> =>
              /\ issues[1].issue_type = "missing_limitations"
              /\ issues[1].severity = "error"

\* a text with another header and with the word in a sentence, and no
\* Limitations header: one issue
C7_Witness ==
    /\ pc = "ret"
    /\ page_texts = <<"References", "the limitations of x">>
    /\ Len(issues) = 1

\* a header in capitals after another line: no issue
C7_WitnessFound ==
    /\ pc = "ret"
    /\ page_texts = <<"a b c", "6. LIMITATIONS">>
    /\ issues = <<>>

----------------------------------------------------------------------------
\* _check_ethical_considerations(text)
InitEthics ==
    /\ pc = "call"
    /\ file = NoFile
    /\ paper_type = "short"
    /\ page_texts \in SeqsUpTo(EthicsLines, MaxTextLines)
    /\ full_text = join_pages(page_texts)
    /\ total_pages = 0
    /\ content_pages = 0
    /\ content_end = <<>>
    /\ issues = <<>>
    /\ result = None
    /\ NoDirectory
    /\ NoMail
    /\ NoReviews
    /\ NoProperties
    /\ NoCli

CallCheckEthicalConsiderations ==
    /\ pc = "call"
    /\ issues' = check_ethical_considerations(full_text)
    /\ pc' = "ret"
    /\ UNCHANGED <<file, paper_type, page_texts, full_text, total_pages,
                   content_pages, content_end, result,
                   dir_vars, mail_vars, review_vars, property_vars, cli_vars>>

NextEthics == CallCheckEthicalConsiderations

SpecEthics == InitEthics /\ [][NextEthics]_vars

\* the shapes that match somewhere in the text
MatchingShapes(text) ==
    {k \in 1..Len(ethical_patterns) :
        re_search(ethical_patterns[k], text, IGNORECASE_MULTILINE)}

\* C8: _check_ethical_considerations returns at most one issue for every
\* text, however many shapes match and however many times; exactly one issue,
\* ethical_considerations of severity warning, if at least one shape matches,
\* and the empty list if none does.
C8_EthicsOnce ==
    pc = "ret" =>
        /\ Len(issues) <= 1
        /\ Len(issues) = 1 <=> MatchingShapes(full_text) # {}
        /\ issues # <<>> =>
              /\ issues[1].issue_type = "ethical_considerations"
              /\ issues[1].severity = "warning"

\* two headers, each matched by more than one shape: one issue
C8_Witness ==
    /\ pc = "ret"
    /\ page_texts = <<"Ethics", "5 Ethical Considerations">>
    /\ Cardinality(MatchingShapes(full_text)) > 2
    /\ Len(issues) = 1

----------------------------------------------------------------------------
\* _check_broken_references(text)
InitBrokenReferences ==
    /\ pc = "call"
    /\ file = NoFile
    /\ paper_type = "short"
    /\ page_texts = <<>>
    /\ full_text \in BrokenRefTexts
    /\ total_pages = 0
    /\ content_pages = 0
    /\ content_end = <<>>
    /\ issues = <<>>
    /\ result = None
    /\ NoDirectory
    /\ NoMail
    /\ NoReviews
    /\ NoProperties
    /\ NoCli

CallCheckBrokenReferences ==
    /\ pc = "call"
    /\ issues' = check_broken_references(full_text)
    /\ pc' = "ret"
    /\ UNCHANGED <<file, paper_type, page_texts, full_text, total_pages,
                   content_pages, content_end, result,
                   dir_vars, mail_vars, review_vars, property_vars, cli_vars>>

NextBrokenReferences == CallCheckBrokenReferences

SpecBrokenReferences == InitBrokenReferences /\ [][NextBrokenReferences]_vars

\* the matches of patterns[k..] in the text, pattern after pattern
RECURSIVE MatchesOf(_, _, _)
MatchesOf(patterns, k, text) ==
    IF k > Len(patterns) THEN <<>>
    ELSE re_finditer(patterns[k], text, IGNORECASE)
         \o MatchesOf(patterns, k + 1, text)

\* a '??' at offset q after a '[' at offset a and before a ']' at offset b
EnclosedAt(text, a, q, b) ==
    /\ a < q
    /\ q + 2 <= b
    /\ CharAt(text, a) = "["
    /\ slice(text, q, q + 2) = "??"
    /\ CharAt(text, b) = "]"

Offsets(text) == 0..(Len(text) - 1)

HasEnclosed(text) ==
    \E a \in Offsets(text), q \in Offsets(text), b \in Offsets(text) :
        EnclosedAt(text, a, q, b)

HasEnclosedOnOneLine(text) ==
    \E a \in Offsets(text), q \in Offsets(text), b \in Offsets(text) :
        /\ EnclosedAt(text, a, q, b)
        /\ ~contains(slice(text, a, b), "\n")

\* what the claim says apart from the brackets: one broken_references
\* warning per match of each pattern, '??' in the details of every issue,
\* and no issue exactly when the text has no '??'
PerMatch ==
    /\ Len(issues) = Len(MatchesOf(broken_ref_patterns, 1, full_text))
    /\ \A i \in 1..Len(issues) :
          /\ issues[i].issue_type = "broken_references"
          /\ issues[i].severity = "warning"
          /\ contains(issues[i].details, "??")
    /\ issues = <<>> <=> ~contains(full_text, "??")

\* C9 as stated: ... so a '??' enclosed in brackets yields at least two
\* issues.
C9_Original ==
    pc = "ret" =>
        /\ PerMatch
        /\ HasEnclosed(full_text) => Len(issues) >= 2

\* C9: _check_broken_references emits one broken_references warning per match
\* of each of its three patterns (bare '??', '??' inside brackets, '??' inside
\* parentheses) without deduplication, so a '??' enclosed in brackets with no
\* line break between the brackets yields at least two issues; the details of
\* every issue contain '??'; and the result is empty exactly when the text
\* contains no '??'.
C9_BrokenReferences ==
    pc = "ret" =>
        /\ PerMatch
        /\ HasEnclosedOnOneLine(full_text) => Len(issues) >= 2

\* the scenario: a bare '??' and a '[??]', three issues
C9_Witness ==
    /\ pc = "ret"
    /\ full_text = ScenarioText
    /\ HasEnclosedOnOneLine(full_text)
    /\ Len(issues) = 3

\* brackets around a '??' on the next line: one issue
C9_WitnessTwoLines ==
    /\ pc = "ret"
    /\ full_text = "[\n??]"
    /\ Len(issues) = 1

----------------------------------------------------------------------------
\* _check_anonymization(text)
InitAnonymization ==
    /\ pc = "call"
    /\ file = NoFile
    /\ paper_type = "short"
    /\ page_texts = <<>>
    /\ full_text \in AnonymizationTexts
    /\ total_pages = 0
    /\ content_pages = 0
    /\ content_end = <<>>
    /\ issues = <<>>
    /\ result = None
    /\ NoDirectory
    /\ NoMail
    /\ NoReviews
    /\ NoProperties
    /\ NoCli

CallCheckAnonymization ==
    /\ pc = "call"
    /\ issues' = check_anonymization(full_text)
    /\ pc' = "ret"
    /\ UNCHANGED <<file, paper_type, page_texts, full_text, total_pages,
                   content_pages, content_end, result,
                   dir_vars, mail_vars, review_vars, property_vars, cli_vars>>

NextAnonymization == CallCheckAnonymization

SpecAnonymization == InitAnonymization /\ [][NextAnonymization]_vars

\* the text from 50 characters before the match, or from the start of the
\* text, to 50 characters after it, or to the end of the text, its line
\* breaks turned into spaces, trimmed
Snippet(text, m) ==
    LET from == IF m.start > 50 THEN m.start - 50 ELSE 0
        to == IF m.end + 50 < Len(text) THEN m.end + 50 ELSE Len(text)
    IN  strip(replace(SubSeq(text, from + 1, to), "\n", " "))

\* C10: _check_anonymization emits exactly one anonymization warning per
\* match of each identity pattern, with no deduplication across patterns or
\* positions; the details of each issue contain the matched text and a
\* snippet of the text from at most 50 characters before the start of the
\* match to at most 50 characters after its end, clipped to the text; a text
\* with no match yields no issue.
C10_Anonymization ==
    pc = "ret" =>
        LET ms == MatchesOf(anonymization_patterns, 1, full_text)
        IN  /\ Len(issues) = Len(ms)
            /\ \A i \in 1..Len(ms) :
                  /\ issues[i].issue_type = "anonymization"
                  /\ issues[i].severity = "warning"
                  /\ contains(issues[i].details,
                              "'" \o group(full_text, ms[i]) \o "'")
                  /\ contains(issues[i].details,
                              "'..." \o Snippet(full_text, ms[i]) \o "...'")

\* an address in braces with more than 50 characters on each side: the email
\* pattern and the LaTeX pattern both report it, each with 50 characters of
\* context on each side
C10_Witness ==
    /\ pc = "ret"
    /\ full_text = Pad(51) \o "{x@uni.edu}" \o Pad(51)
    /\ Len(issues) = 2
    /\ contains(issues[1].details, "'@uni.edu'")
    /\ contains(issues[2].details,
                "'..." \o Pad(50) \o "{x@uni.edu}" \o Pad(50) \o "...'")

\* a text no pattern matches
C10_WitnessNoMatch ==
    /\ pc = "ret"
    /\ full_text = "a b c"
    /\ issues = <<>>

(***************************************************************************)
(* PDFChecker.check_directory                                              *)
(***************************************************************************)
\* the most PDF files of a directory
MaxDirFiles == 3

\* What a file of a directory can be: one page of prose, a page that three
\* detectors report, no page, a file that cannot be opened, a file whose
\* second page cannot be extracted.
DirFileKinds == {
    [ok |-> TRUE, pages |-> <<PlainPage>>, readable |-> 1],
    [ok |-> TRUE, pages |-> <<"x@uni.edu\nsee [??]\nEthics">>, readable |-> 1],
    [ok |-> TRUE, pages |-> <<>>, readable |-> 0],
    [ok |-> FALSE, pages |-> <<>>, readable |-> 0],
    [ok |-> FALSE, pages |-> <<PlainPage, PlainPage>>, readable |-> 1] }

\* the i-th file that glob finds
FileOf(kind, i) ==
    [path |-> "p" \o ToString(i) \o ".pdf", ok |-> kind.ok,
     pages |-> kind.pages, readable |-> kind.readable]

\* a directory that does not exist, and the directories of up to MaxDirFiles
\* PDF files
Directories ==
    {[exists |-> FALSE, pdf_files |-> <<>>]}
    \cup {[exists |-> TRUE,
           pdf_files |-> [i \in 1..Len(kinds) |-> FileOf(kinds[i], i)]] :
            kinds \in SeqsUpTo(DirFileKinds, MaxDirFiles)}

InitDirectory ==
    /\ pc = "dir_start"
    /\ directory \in Directories
    /\ file_idx = 0
    /\ results = <<>>
    /\ paper_type = "long"
    /\ file = NoFile
    /\ page_texts = <<>>
    /\ full_text = ""
    /\ total_pages = 0
    /\ content_pages = 0
    /\ content_end = <<>>
    /\ issues = <<>>
    /\ result = None
    /\ NoMail
    /\ NoReviews
    /\ NoProperties
    /\ NoCli

\* the directory does not exist, or glob finds no PDF file in it
ReturnNothing ==
    /\ pc = "dir_start"
    /\ ~directory.exists \/ directory.pdf_files = <<>>
    /\ pc' = "dir_returned"
    /\ UNCHANGED <<pdf_vars, dir_vars, mail_vars, review_vars, property_vars, cli_vars>>

EnterLoop ==
    /\ pc = "dir_start"
    /\ directory.exists
    /\ directory.pdf_files # <<>>
    /\ pc' = "dir_loop"
    /\ UNCHANGED <<pdf_vars, dir_vars, mail_vars, review_vars, property_vars, cli_vars>>

\* a slip: the list of issues shared by the calls
CallCheckPdfSharingIssues ==
    /\ pc = "dir_loop"
    /\ file_idx < Len(directory.pdf_files)
    /\ file' = directory.pdf_files[file_idx + 1]
    /\ page_texts' = <<>>
    /\ full_text' = ""
    /\ total_pages' = 0
    /\ content_pages' = 0
    /\ content_end' = <<>>
    /\ pc' = "start"
    /\ UNCHANGED <<paper_type, issues, result, dir_vars, mail_vars, review_vars, property_vars, cli_vars>>

\* result = self.check_pdf(str(pdf_file), paper_type): the call, which
\* starts with issues = [] and with no other local bound
CallCheckPdf ==
    /\ pc = "dir_loop"
    /\ file_idx < Len(directory.pdf_files)
    /\ file' = directory.pdf_files[file_idx + 1]
    /\ issues' = <<>>
    /\ page_texts' = <<>>
    /\ full_text' = ""
    /\ total_pages' = 0
    /\ content_pages' = 0
    /\ content_end' = <<>>
    /\ pc' = "start"
    /\ UNCHANGED <<paper_type, result, dir_vars, mail_vars, review_vars, property_vars, cli_vars>>

\* a slip: the result of a file that failed left out
AppendResultUnlessFailed ==
    /\ pc = "returned"
    /\ results' = IF file.ok THEN Append(results, result) ELSE results
    /\ file_idx' = file_idx + 1
    /\ pc' = "dir_loop"
    /\ UNCHANGED <<pdf_vars, directory, mail_vars, review_vars, property_vars, cli_vars>>

\* results.append(result) and the next turn of the loop
AppendResult ==
    /\ pc = "returned"
    /\ results' = Append(results, result)
    /\ file_idx' = file_idx + 1
    /\ pc' = "dir_loop"
    /\ UNCHANGED <<pdf_vars, directory, mail_vars, review_vars, property_vars, cli_vars>>

ReturnResults ==
    /\ pc = "dir_loop"
    /\ file_idx = Len(directory.pdf_files)
    /\ pc' = "dir_returned"
    /\ UNCHANGED <<pdf_vars, dir_vars, mail_vars, review_vars, property_vars, cli_vars>>

NextDirectory ==
    \/ ReturnNothing
    \/ EnterLoop
    \/ CallCheckPdf
    \/ Next
    \/ AppendResult
    \/ ReturnResults

SpecDirectory == InitDirectory /\ [][NextDirectory]_vars

\* the result of a failure that check_pdf absorbed
IsFailureResult(r) ==
    /\ r.total_pages = 0
    /\ r.content_pages = 0
    /\ Len(r.issues) = 1
    /\ r.issues[1].issue_type = "page_limit"
    /\ r.issues[1].severity = "error"

\* the result of a file that was read to its end
IsSuccessResult(r, f) ==
    /\ r.total_pages = Len(f.pages)
    /\ \A k \in 1..Len(r.issues) :
          r.issues[k].message \notin {"Failed to process PDF: cannot open",
                                      "Failed to process PDF: cannot extract"}

----------------------------------------------------------------------------
\* C13: check_directory returns exactly one result per PDF file found, in
\* the order the files are processed; a document whose processing fails
\* contributes its failure result at its position and the documents after
\* it are still processed; the output is as long as the list of documents.
C13_OneResultPerFile ==
    pc = "dir_returned" =>
        /\ Len(results) = Len(directory.pdf_files)
        /\ \A i \in 1..Len(results) :
              LET f == directory.pdf_files[i]
              IN  /\ results[i].file_path = f.path
                  /\ results[i].paper_type = paper_type
                  /\ IF f.ok THEN IsSuccessResult(results[i], f)
                             ELSE IsFailureResult(results[i])

\* a file that cannot be opened between two files that are read
C13_Witness ==
    /\ pc = "dir_returned"
    /\ Len(results) = 3
    /\ directory.pdf_files[1].ok
    /\ ~directory.pdf_files[2].ok
    /\ directory.pdf_files[3].ok
    /\ IsFailureResult(results[2])
    /\ results[3].total_pages = 1

\* a directory that does not exist
C13_WitnessNoDirectory ==
    /\ pc = "dir_returned"
    /\ ~directory.exists
    /\ results = <<>>

----------------------------------------------------------------------------
\* two files with the same pages, of which the same can be read
SameDocument(f, g) ==
    /\ f.ok = g.ok
    /\ f.pages = g.pages
    /\ f.readable = g.readable

MaxIssues == 3

Severities == {"error", "warning", "info"}

\* the issues a result is built of, as the tests build them
SomeIssues ==
    {Issue(t, sev, "Test", None) :
        t \in {"page_limit", "anonymization"}, sev \in Severities}

\* any(issue.severity == severity for issue in issues)
RECURSIVE any_severity(_, _)
any_severity(iss, severity) ==
    IF iss = <<>> THEN FALSE
    ELSE IF Head(iss).severity = severity THEN TRUE
    ELSE any_severity(Tail(iss), severity)

\* a slip: warnings counted as errors
has_errors_or_warnings(r) ==
    any_severity(r.issues, "error") \/ any_severity(r.issues, "warning")

has_errors(r) == any_severity(r.issues, "error")

has_warnings(r) == any_severity(r.issues, "warning")

InitProperties ==
    /\ pc = "call"
    /\ file = NoFile
    /\ paper_type = "short"
    /\ page_texts = <<>>
    /\ full_text = ""
    /\ total_pages = 5
    /\ content_pages = 4
    /\ content_end = <<>>
    /\ issues \in SeqsUpTo(SomeIssues, MaxIssues)
    /\ result = [file_path |-> "test.pdf", paper_type |-> paper_type,
                 total_pages |-> total_pages, content_pages |-> content_pages,
                 issues |-> issues]
    /\ NoDirectory
    /\ NoMail
    /\ NoReviews
    /\ NoProperties
    /\ NoCli

ReadProperties ==
    /\ pc = "call"
    /\ properties' = [has_errors |-> has_errors(result),
                      has_warnings |-> has_warnings(result)]
    /\ pc' = "ret"
    /\ UNCHANGED <<pdf_vars, dir_vars, mail_vars, review_vars, cli_vars>>

NextProperties == ReadProperties

SpecProperties == InitProperties /\ [][NextProperties]_vars

\* the severities of the issues of the result
SeveritiesOf(iss) == {iss[i].severity : i \in 1..Len(iss)}

----------------------------------------------------------------------------
\* C14: for every list of issues, has_errors is true iff some issue has
\* severity error and has_warnings is true iff some issue has severity
\* warning; a result whose issues all have severity info, or that has no
\* issue, has has_errors = false and has_warnings = false.
C14_Properties ==
    pc = "ret" =>
        /\ properties.has_errors <=> "error" \in SeveritiesOf(result.issues)
        /\ properties.has_warnings <=> "warning" \in SeveritiesOf(result.issues)
        /\ SeveritiesOf(result.issues) \subseteq {"info"} =>
              /\ ~properties.has_errors
              /\ ~properties.has_warnings

\* warnings and a note, no error
C14_Witness ==
    /\ pc = "ret"
    /\ SeveritiesOf(result.issues) = {"warning", "info"}
    /\ ~properties.has_errors
    /\ properties.has_warnings

\* notes only
C14_WitnessInfo ==
    /\ pc = "ret"
    /\ SeveritiesOf(result.issues) = {"info"}
    /\ ~properties.has_errors
    /\ ~properties.has_warnings

(***************************************************************************)
(* The text detectors on texts of little or nothing                        *)
(***************************************************************************)
\* the texts: up to MaxPieces of these characters one after the other
EdgePieces == {"?", "[", "@", "{", " ", "\n"}
EdgeTexts == {Concat(q) : q \in SeqsUpTo(EdgePieces, MaxPieces)}

InitDetectors ==
    /\ pc = "call"
    /\ file = NoFile
    /\ paper_type = "short"
    /\ page_texts = <<>>
    /\ full_text \in EdgeTexts
    /\ total_pages = 0
    /\ content_pages = 0
    /\ content_end = <<>>
    /\ issues = <<>>
    /\ result = None
    /\ NoDirectory
    /\ NoMail
    /\ NoReviews
    /\ NoProperties
    /\ NoCli

DetectLimitations ==
    /\ pc = "call"
    /\ issues' = check_limitations_section(full_text)
    /\ pc' = "ret_limitations"
    /\ UNCHANGED <<file, paper_type, page_texts, full_text, total_pages,
                   content_pages, content_end, result,
                   dir_vars, mail_vars, review_vars, property_vars, cli_vars>>

DetectAnonymization ==
    /\ pc = "call"
    /\ issues' = check_anonymization(full_text)
    /\ pc' = "ret_anonymization"
    /\ UNCHANGED <<file, paper_type, page_texts, full_text, total_pages,
                   content_pages, content_end, result,
                   dir_vars, mail_vars, review_vars, property_vars, cli_vars>>

DetectBrokenReferences ==
    /\ pc = "call"
    /\ issues' = check_broken_references(full_text)
    /\ pc' = "ret_broken_references"
    /\ UNCHANGED <<file, paper_type, page_texts, full_text, total_pages,
                   content_pages, content_end, result,
                   dir_vars, mail_vars, review_vars, property_vars, cli_vars>>

DetectEthicalConsiderations ==
    /\ pc = "call"
    /\ issues' = check_ethical_considerations(full_text)
    /\ pc' = "ret_ethical_considerations"
    /\ UNCHANGED <<file, paper_type, page_texts, full_text, total_pages,
                   content_pages, content_end, result,
                   dir_vars, mail_vars, review_vars, property_vars, cli_vars>>

NextDetectors ==
    \/ DetectLimitations
    \/ DetectAnonymization
    \/ DetectBrokenReferences
    \/ DetectEthicalConsiderations

SpecDetectors == InitDetectors /\ [][NextDetectors]_vars

\* a list of issues, as a detector returns it
IsIssueList(iss) ==
    /\ iss \in Seq({iss[i] : i \in 1..Len(iss)})
    /\ \A i \in 1..Len(iss) :
          /\ iss[i].severity \in Severities
          /\ iss[i].issue_type \in
                {"page_limit", "missing_limitations", "anonymization",
                 "broken_references", "ethical_considerations"}

----------------------------------------------------------------------------
\* C15: no detector raises for any text, the empty string included: each
\* returns a list of issues.  On the empty string the anonymization, the
\* broken-reference and the ethics detectors return no issue, and the
\* missing-limitations detector returns exactly one issue, an error.
C15_EmptyText ==
    pc # "call" =>
        /\ IsIssueList(issues)
        /\ full_text = "" =>
              IF pc = "ret_limitations"
              THEN /\ Len(issues) = 1
                   /\ issues[1].issue_type = "missing_limitations"
                   /\ issues[1].severity = "error"
              ELSE issues = <<>>

C15_Witness ==
    /\ pc = "ret_limitations"
    /\ full_text = ""
    /\ Len(issues) = 1

C15_WitnessEthics ==
    /\ pc = "ret_ethical_considerations"
    /\ full_text = ""
    /\ issues = <<>>

(***************************************************************************)
(* email_sender.send_reminder_emails                                       *)
(***************************************************************************)
\* the most entries handed to send_reminder_emails
MaxEntries == 2

\* The entries: the address of the reviewer is an address (one of them the
\* address also used for testing), a profile id for want of an address, or a
\* masked address; the flag is '' or 'Emergency'.
ReviewerEmails == {"a@x.org", "t@x.org", "~Rev1", "m***@x.org"}
Flags == {"", "Emergency"}
Entries ==
    {[reviewer_email |-> e, flag |-> fl, paper_title |-> "T"] :
        e \in ReviewerEmails, fl \in Flags}

\* test_email: not given, empty, an address, a masked address
TestEmails == {None, "", "t@x.org", "t***@x.org"}

\* The SMTP server: whether connect, starttls and login go through, and the
\* entries (by position) for which sendmail raises.
SmtpServers ==
    {[login_ok |-> FALSE, rejects |-> {}]}
    \cup {[login_ok |-> TRUE, rejects |-> rej] : rej \in SUBSET (1..MaxEntries)}

\* a result tuple: (recipient, True) has no error (None here), and
\* (recipient, False, error) has one
ResultTuple(recipient, success, error) ==
    [recipient |-> recipient, success |-> success, error |-> error]

InitMail ==
    /\ pc = "mail_start"
    /\ missing_entries \in SeqsUpTo(Entries, MaxEntries)
    /\ test_email \in TestEmails
    /\ smtp \in SmtpServers
    /\ entry_idx = 0
    /\ sendmail_calls = <<>>
    /\ email_results = <<>>
    /\ file = NoFile
    /\ paper_type = "short"
    /\ page_texts = <<>>
    /\ full_text = ""
    /\ total_pages = 0
    /\ content_pages = 0
    /\ content_end = <<>>
    /\ issues = <<>>
    /\ result = None
    /\ NoDirectory
    /\ NoReviews
    /\ NoProperties
    /\ NoCli

\* a slip: nothing returned when the login fails
LoginFailedReturningNothing ==
    /\ pc = "mail_start"
    /\ ~smtp.login_ok
    /\ email_results' = <<>>
    /\ pc' = "mail_returned"
    /\ UNCHANGED <<pdf_vars, dir_vars, missing_entries, test_email, smtp,
                   entry_idx, sendmail_calls, review_vars, property_vars, cli_vars>>

\* smtplib.SMTP, starttls or login raises
LoginFailed ==
    /\ pc = "mail_start"
    /\ ~smtp.login_ok
    /\ email_results' =
          [i \in 1..Len(missing_entries) |->
              ResultTuple(missing_entries[i].reviewer_email, FALSE,
                          "SMTP login failed: error")]
    /\ pc' = "mail_returned"
    /\ UNCHANGED <<pdf_vars, dir_vars, missing_entries, test_email, smtp,
                   entry_idx, sendmail_calls, review_vars, property_vars, cli_vars>>

\* the login goes through and the template is read
LoggedIn ==
    /\ pc = "mail_start"
    /\ smtp.login_ok
    /\ pc' = "mail_loop"
    /\ UNCHANGED <<pdf_vars, dir_vars, mail_vars, review_vars, property_vars, cli_vars>>

\* the entry of this turn of the loop
entry == missing_entries[entry_idx + 1]

\* a slip: the flag compared in lower case
is_emergency_lower(e) == e.flag = "emergency"

\* entry.get("flag") == "Emergency"
is_emergency(e) == e.flag = "Emergency"

\* a slip: the address of the reviewer in test mode too
recipient_of_reviewer(e, test) == e.reviewer_email

\* test_email if test_email else entry["reviewer_email"]
recipient_of(e, test) ==
    IF test \notin {None, ""} THEN test ELSE e.reviewer_email

\* "*" in recipient or "@" not in recipient
is_masked_or_missing(recipient) ==
    contains(recipient, "*") \/ ~contains(recipient, "@")

SkipEmergency ==
    /\ pc = "mail_loop"
    /\ entry_idx < Len(missing_entries)
    /\ is_emergency(entry)
    /\ email_results' =
          Append(email_results,
                 ResultTuple(entry.reviewer_email, FALSE,
                             "Skipped: reviewer declared emergency"))
    /\ entry_idx' = entry_idx + 1
    /\ UNCHANGED <<pc, pdf_vars, dir_vars, missing_entries, test_email, smtp,
                   sendmail_calls, review_vars, property_vars, cli_vars>>

SkipInvalidAddress ==
    /\ pc = "mail_loop"
    /\ entry_idx < Len(missing_entries)
    /\ ~is_emergency(entry)
    /\ LET recipient == recipient_of(entry, test_email)
       IN  /\ is_masked_or_missing(recipient)
           /\ email_results' =
                 Append(email_results,
                        ResultTuple(recipient, FALSE,
                            "No valid email address available (masked or missing)"))
    /\ entry_idx' = entry_idx + 1
    /\ UNCHANGED <<pc, pdf_vars, dir_vars, missing_entries, test_email, smtp,
                   sendmail_calls, review_vars, property_vars, cli_vars>>

\* server.sendmail(sender_email, [recipient], msg.as_string()) with
\* msg["To"] = recipient, and what it comes to
SendMail ==
    /\ pc = "mail_loop"
    /\ entry_idx < Len(missing_entries)
    /\ ~is_emergency(entry)
    /\ LET recipient == recipient_of(entry, test_email)
       IN  /\ ~is_masked_or_missing(recipient)
           /\ sendmail_calls' =
                 Append(sendmail_calls,
                        [entry |-> entry_idx + 1, to_addrs |-> <<recipient>>,
                         To |-> recipient,
                         Subject |-> "Review reminder: " \o entry.paper_title])
           /\ email_results' =
                 Append(email_results,
                        IF (entry_idx + 1) \in smtp.rejects
                        THEN ResultTuple(recipient, FALSE, "error")
                        ELSE ResultTuple(recipient, TRUE, None))
    /\ entry_idx' = entry_idx + 1
    /\ UNCHANGED <<pc, pdf_vars, dir_vars, missing_entries, test_email, smtp,
                   review_vars, property_vars, cli_vars>>

\* server.quit() and return results
QuitAndReturn ==
    /\ pc = "mail_loop"
    /\ entry_idx = Len(missing_entries)
    /\ pc' = "mail_returned"
    /\ UNCHANGED <<pdf_vars, dir_vars, mail_vars, review_vars, property_vars, cli_vars>>

NextMail ==
    \/ LoginFailed
    \/ LoggedIn
    \/ SkipEmergency
    \/ SkipInvalidAddress
    \/ SendMail
    \/ QuitAndReturn

SpecMail == InitMail /\ [][NextMail]_vars

----------------------------------------------------------------------------
\* C17: when send_reminder_emails is called with a test_email, every message
\* handed to the SMTP server is addressed to test_email, and no message is
\* addressed to the address of a reviewer.
C17_TestModeRecipient ==
    test_email \notin {None, ""} =>
        \A c \in 1..Len(sendmail_calls) :
            /\ sendmail_calls[c].to_addrs = <<test_email>>
            /\ sendmail_calls[c].To = test_email
            /\ \A i \in 1..Len(missing_entries) :
                  missing_entries[i].reviewer_email # test_email =>
                      sendmail_calls[c].To # missing_entries[i].reviewer_email

\* two reviewers with an address of their own, two messages to the test
\* address
C17_Witness ==
    /\ pc = "mail_returned"
    /\ test_email = "t@x.org"
    /\ Len(missing_entries) = 2
    /\ \A i \in 1..2 : missing_entries[i].reviewer_email = "a@x.org"
    /\ Len(sendmail_calls) = 2
    /\ sendmail_calls[2].To = "t@x.org"

\* C18: send_reminder_emails never sends a message for an entry whose flag
\* is 'Emergency', with or without test_email; such an entry is reported as
\* a failed (skipped) result, and the entries after it are processed.
C18_NoMailOnEmergency ==
    /\ \A c \in 1..Len(sendmail_calls) :
          missing_entries[sendmail_calls[c].entry].flag # "Emergency"
    /\ pc = "mail_returned" =>
          /\ Len(email_results) = Len(missing_entries)
          /\ \A i \in 1..Len(missing_entries) :
                missing_entries[i].flag = "Emergency" =>
                    /\ ~email_results[i].success
                    /\ email_results[i].recipient =
                          missing_entries[i].reviewer_email
                    /\ smtp.login_ok =>
                          email_results[i].error =
                              "Skipped: reviewer declared emergency"

\* in test mode, an emergency entry skipped and the entry after it mailed
C18_Witness ==
    /\ pc = "mail_returned"
    /\ test_email = "t@x.org"
    /\ Len(missing_entries) = 2
    /\ missing_entries[1].flag = "Emergency"
    /\ missing_entries[2].flag = ""
    /\ ~email_results[1].success
    /\ email_results[2].success
    /\ Len(sendmail_calls) = 1
    /\ sendmail_calls[1].entry = 2

\* the calls of sendmail made for the entry at position i
CallsFor(i) == {c \in 1..Len(sendmail_calls) : sendmail_calls[c].entry = i}

C19_WitnessLogin ==
    /\ pc = "mail_returned"
    /\ ~smtp.login_ok
    /\ Len(missing_entries) = 2
    /\ Len(email_results) = 2
    /\ sendmail_calls = <<>>

----------------------------------------------------------------------------
(***************************************************************************)
(* get_missing_reviews(client, venue_id, paper_ids).  The client answers   *)
(* from the data of the venue: per paper its note (title, number), the     *)
(* tails of its assignment edges, the notes of its forum and its anonymous *)
(* reviewer groups; and per reviewer id the profile that the batch fetch   *)
(* and the individual fetch give.                                          *)
(***************************************************************************)
MaxPapers == 2
MaxNotes == 2

Reviewers == {"~R1", "~R2"}

\* a note of a forum; API v2 has 'invitations' (a list), API v1 'invitation'
Note(invitation, invitations, signatures) ==
    [invitation |-> invitation, invitations |-> invitations,
     signatures |-> signatures]

\* a review and an emergency declaration signed by an anonymous group, in
\* both styles; a note of an invitation that only starts like a review; a
\* review signed with a profile id
NoteKinds ==
    {Note(None, <<"V/S/-/Official_Review", "V/-/Edit">>, <<"g1">>),
     Note("V/S/-/Official_Review", None, <<"g2">>),
     Note(None, <<"V/S/-/Emergency_Declaration">>, <<"g1">>),
     Note("V/S/-/Emergency_Declaration", <<>>, <<"g2">>),
     Note(None, <<"V/S/-/Official_Review_Draft">>, <<"g2">>),
     Note(None, <<"V/S/-/Official_Review">>, <<"~R2">>)}

Group(id, members) == [id |-> id, members |-> members]

\* one group per reviewer; one group of two; a group without members
GroupsEach == <<Group("g1", <<"~R1">>), Group("g2", <<"~R2">>)>>
GroupsOfTwo == <<Group("g1", <<"~R2", "~R1">>)>>
GroupsEmpty == <<Group("g1", <<>>), Group("g2", <<"~R2">>)>>
GroupFamilies == {GroupsEach, GroupsOfTwo, GroupsEmpty}

\* the tails of the assignment edges of a paper: one edge per reviewer
Assignments == {<<>>, <<"~R1">>, <<"~R1", "~R2">>, <<"~R2", "~R1">>}

PaperData(assigned, all_notes, anon_groups) ==
    [assigned |-> assigned, all_notes |-> all_notes,
     anon_groups |-> anon_groups]

\* the first paper: every forum of up to MaxNotes notes with two reviewers
\* and a group each, and one forum with every assignment and family of groups
Papers ==
    {PaperData(<<"~R1", "~R2">>, ns, GroupsEach) :
        ns \in SeqsUpTo(NoteKinds, MaxNotes)}
    \cup
    {PaperData(a, <<Note(None, <<"V/S/-/Official_Review", "V/-/Edit">>, <<"g1">>),
                    Note("V/S/-/Emergency_Declaration", <<>>, <<"g2">>)>>, g) :
        a \in Assignments, g \in GroupFamilies}

\* the papers after the first
MorePapers ==
    {PaperData(<<"~R1", "~R2">>, <<>>, GroupsEach),
     PaperData(<<"~R2", "~R1">>,
               <<Note("V/S/-/Official_Review", None, <<"g2">>),
                 Note(None, <<"V/S/-/Emergency_Declaration">>, <<"g1">>)>>,
               GroupsEach),
     PaperData(<<"~R1">>,
               <<Note(None, <<"V/S/-/Emergency_Declaration">>, <<"g1">>)>>,
               GroupsOfTwo)}

\* client.get_note(paper_id): the id, the number and the title of the paper
\* at position i
Numbered(ps) ==
    [i \in 1..Len(ps) |->
        [id |-> "p" \o ToString(i), number |-> i,
         title |-> "T" \o ToString(i),
         assigned |-> ps[i].assigned, all_notes |-> ps[i].all_notes,
         anon_groups |-> ps[i].anon_groups]]

Forums ==
    {<<>>} \cup
    {Numbered(<<p>> \o rest) :
        p \in Papers, rest \in SeqsUpTo(MorePapers, MaxPapers - 1)}

\* a profile: the batch fetch gives preferredEmail (None: no such key) and
\* the first name; the individual fetch gives a profile or raises ("raise")
Profile(preferredEmail, fullEmail, name) ==
    [preferredEmail |-> preferredEmail, fullEmail |-> fullEmail, name |-> name]

ProfileFamilies ==
    {[r \in Reviewers |-> Profile("a@x.org", None, "Ann Lee")],
     [r \in Reviewers |->
        IF r = "~R1" THEN Profile("m***@x.org", "b@x.org", None)
        ELSE Profile(None, "raise", "Bo Kim")],
     [r \in Reviewers |->
        IF r = "~R1" THEN Profile(None, "m***@x.org", "Ann Lee")
        ELSE Profile("a@x.org", None, None)]}

InitReviews ==
    /\ pc = "reviews_loop"
    /\ client \in {[papers |-> f, profiles |-> p] :
                      f \in Forums, p \in ProfileFamilies}
    /\ paper_ids = [i \in 1..Len(client.papers) |-> client.papers[i].id]
    /\ paper_idx = 0
    /\ paper_missing = <<>>
    /\ missing = None
    /\ file = NoFile
    /\ paper_type = "short"
    /\ page_texts = <<>>
    /\ full_text = ""
    /\ total_pages = 0
    /\ content_pages = 0
    /\ content_end = <<>>
    /\ issues = <<>>
    /\ result = None
    /\ NoDirectory
    /\ NoMail
    /\ NoProperties
    /\ NoCli

\* invs + ([inv] if inv else []), None standing for a missing attribute
all_invs(n) ==
    (IF n.invitations = None THEN <<>> ELSE n.invitations)
    \o (IF n.invitation \in {None, ""} THEN <<>> ELSE <<n.invitation>>)

Official_Review == Cat(<<Lit("/-/Official_Review"), Eol>>)
Emergency_Declaration == Cat(<<Lit("/-/Emergency_Declaration"), Eol>>)

\* any(re.search(pattern, i) for i in all_invs)
has_invitation(n, pattern) ==
    \E k \in 1..Len(all_invs(n)) : re_search(pattern, all_invs(n)[k], NoFlags)

\* the ids that anon_to_profile has as keys
anon_keys(anon_groups) ==
    {anon_groups[k].id : k \in {j \in 1..Len(anon_groups) :
                                   anon_groups[j].members # <<>>}}

\* a slip: the last member of the group
anon_to_profile_last(anon_groups) ==
    [id \in anon_keys(anon_groups) |->
        LET last == CHOOSE k \in 1..Len(anon_groups) :
                        /\ anon_groups[k].id = id
                        /\ anon_groups[k].members # <<>>
                        /\ \A j \in (k + 1)..Len(anon_groups) :
                              anon_groups[j].id # id
                              \/ anon_groups[j].members = <<>>
        IN  anon_groups[last].members[Len(anon_groups[last].members)]]

\* anon_to_profile[ag.id] = ag.members[0] for the groups with members, a
\* later group of the same id replacing an earlier one
anon_to_profile(anon_groups) ==
    [id \in anon_keys(anon_groups) |->
        LET last == CHOOSE k \in 1..Len(anon_groups) :
                        /\ anon_groups[k].id = id
                        /\ anon_groups[k].members # <<>>
                        /\ \A j \in (k + 1)..Len(anon_groups) :
                              anon_groups[j].id # id
                              \/ anon_groups[j].members = <<>>
        IN  anon_groups[last].members[1]]

\* the profiles of the signatures, in anon_to_profile, of the notes of the
\* invitation
signing_profiles(all_notes, anon_groups, pattern) ==
    LET a2p == anon_to_profile(anon_groups)
    IN  {a2p[sig] :
            sig \in {s \in UNION {{all_notes[k].signatures[j] :
                                      j \in 1..Len(all_notes[k].signatures)} :
                                  k \in {i \in 1..Len(all_notes) :
                                            has_invitation(all_notes[i], pattern)}} :
                        s \in DOMAIN a2p}}

reviewed_profiles(paper) ==
    signing_profiles(paper.all_notes, paper.anon_groups, Official_Review)
emergency_profiles(paper) ==
    signing_profiles(paper.all_notes, paper.anon_groups, Emergency_Declaration)

\* [rid for rid in assigned_reviewer_ids if rid not in reviewed_profiles]
missing_ids(paper) ==
    LET NotReviewed(rid) == rid \notin reviewed_profiles(paper)
    IN  SelectSeq(paper.assigned, NotReviewed)

\* the entries appended for a paper
entries_of(paper) ==
    LET ids == missing_ids(paper)
    IN  [k \in 1..Len(ids) |->
            [paper_title |-> paper.title,
             paper_number |-> paper.number,
             paper_id |-> paper.id,
             reviewer_id |-> ids[k],
             flag |-> IF ids[k] \in emergency_profiles(paper)
                      THEN "Emergency" ELSE ""]]

\* one turn of the loop over paper_ids
ProcessPaper ==
    /\ pc = "reviews_loop"
    /\ paper_idx < Len(paper_ids)
    /\ LET paper == CHOOSE p \in {client.papers[k] : k \in 1..Len(client.papers)} :
                        p.id = paper_ids[paper_idx + 1]
       IN  paper_missing' = paper_missing \o entries_of(paper)
    /\ paper_idx' = paper_idx + 1
    /\ UNCHANGED <<pc, pdf_vars, dir_vars, mail_vars, client, paper_ids,
                   missing, property_vars, cli_vars>>

\* _get_profile_email on the profiles of the model: preferredEmail if it is
\* there, unmasked and with an "@"
get_profile_email(email) ==
    IF email \notin {None, "", "raise"} /\ ~contains(email, "*")
       /\ contains(email, "@")
    THEN email ELSE None

\* email_map.get(rid, rid) after the batch fetch and the individual fetches
email_of(rid) ==
    LET profile == client.profiles[rid]
        email == get_profile_email(profile.preferredEmail)
        full == get_profile_email(profile.fullEmail)
    IN  IF email # None THEN email
        ELSE IF full # None THEN full
        ELSE rid

\* name_map.get(rid, rid)
name_of(rid) ==
    IF client.profiles[rid].name # None THEN client.profiles[rid].name
    ELSE rid

\* the profiles are fetched, every entry gets its reviewer_email and
\* reviewer_name, and the entries are returned
ReturnMissing ==
    /\ pc = "reviews_loop"
    /\ paper_idx = Len(paper_ids)
    /\ missing' =
          [k \in 1..Len(paper_missing) |->
              [paper_title |-> paper_missing[k].paper_title,
               paper_number |-> paper_missing[k].paper_number,
               paper_id |-> paper_missing[k].paper_id,
               reviewer_id |-> paper_missing[k].reviewer_id,
               flag |-> paper_missing[k].flag,
               reviewer_email |-> email_of(paper_missing[k].reviewer_id),
               reviewer_name |-> name_of(paper_missing[k].reviewer_id)]]
    /\ pc' = "reviews_returned"
    /\ UNCHANGED <<pdf_vars, dir_vars, mail_vars, client, paper_ids,
                   paper_idx, paper_missing, property_vars, cli_vars>>

NextReviews ==
    \/ ProcessPaper
    \/ ReturnMissing

SpecReviews == InitReviews /\ [][NextReviews]_vars

\* an invitation of the kind: it ends in /-/<kind>
EndsIn(inv, tail) ==
    /\ Len(inv) >= Len(tail)
    /\ SubSeq(inv, Len(inv) - Len(tail) + 1, Len(inv)) = tail

\* the forum of the paper has a note of the kind signed by an anonymous
\* group mapped to the reviewer (to its first member)
HasSigned(paper, rid, kind) ==
    \E n \in 1..Len(paper.all_notes) :
        LET note == paper.all_notes[n]
        IN  /\ \/ note.invitation # None /\ EndsIn(note.invitation, "/-/" \o kind)
               \/ /\ note.invitations # None
                  /\ \E k \in 1..Len(note.invitations) :
                        EndsIn(note.invitations[k], "/-/" \o kind)
            /\ \E s \in 1..Len(note.signatures) :
                  \E g \in 1..Len(paper.anon_groups) :
                      /\ paper.anon_groups[g].id = note.signatures[s]
                      /\ paper.anon_groups[g].members # <<>>
                      /\ paper.anon_groups[g].members[1] = rid

\* the entries returned for a paper and a reviewer
EntriesFor(paper, rid) ==
    {k \in 1..Len(missing) :
        missing[k].paper_id = paper.id /\ missing[k].reviewer_id = rid}

IsAssigned(paper, rid) ==
    \E k \in 1..Len(paper.assigned) : paper.assigned[k] = rid

\* C20: get_missing_reviews returns, for each paper, exactly one entry per
\* assigned reviewer without an Official_Review note on the forum signed by
\* an anonymous group mapped to that reviewer, and no entry for a reviewer
\* with such a review (nor for anyone unassigned); the flag of an entry is
\* 'Emergency' iff an Emergency_Declaration note on the forum is signed by
\* the anonymous group of that reviewer, and '' otherwise.
C20_MissingReviews ==
    pc = "reviews_returned" =>
        /\ \A p \in 1..Len(client.papers) : \A rid \in Reviewers :
              LET paper == client.papers[p]
              IN  /\ Cardinality(EntriesFor(paper, rid)) =
                        IF IsAssigned(paper, rid)
                           /\ ~HasSigned(paper, rid, "Official_Review")
                        THEN 1 ELSE 0
                  /\ \A k \in EntriesFor(paper, rid) :
                        missing[k].flag =
                            IF HasSigned(paper, rid, "Emergency_Declaration")
                            THEN "Emergency" ELSE ""
        /\ \A k \in 1..Len(missing) :
              \E p \in 1..Len(client.papers) :
                  /\ missing[k].paper_id = client.papers[p].id
                  /\ missing[k].reviewer_id \in Reviewers
        /\ \A j, k \in 1..Len(missing) :
              j < k => missing[j].paper_number <= missing[k].paper_number

\* a group of two whose first member reviewed: the second member, assigned
\* too, is reported, and with no flag, the declaration being of another group
C20_Witness ==
    /\ pc = "reviews_returned"
    /\ Len(client.papers) = 1
    /\ client.papers[1].anon_groups = GroupsOfTwo
    /\ client.papers[1].assigned = <<"~R1", "~R2">>
    /\ Len(missing) = 1
    /\ missing[1].reviewer_id = "~R1"
    /\ missing[1].flag = ""

\* two papers; the reviewer who declared an emergency on the second one is
\* reported for it with the flag, the one who reviewed it is not
C20_WitnessEmergency ==
    /\ pc = "reviews_returned"
    /\ Len(client.papers) = 2
    /\ \E k \in 1..Len(missing) :
          /\ missing[k].paper_id = "p2"
          /\ missing[k].reviewer_id = "~R1"
          /\ missing[k].flag = "Emergency"
    /\ \A k \in 1..Len(missing) :
          missing[k].paper_id = "p2" => missing[k].reviewer_id # "~R2"

----------------------------------------------------------------------------
(***************************************************************************)
(* _calculate_content_pages on pages with numbered headers and numbered    *)
(* lines                                                                   *)
(***************************************************************************)
\* Headers with the section number 1, with other numbers and with none;
\* numbered lines that are no header, with a capital and with a small letter
\* after the number.
HeaderLines ==
    {"1. References", "1. Limitations", "1. Ethics", "1. Appendix A",
     "1. Bibliography", "2. References", "12. Limitations", "References",
     "1 References", "1.References", "1. references", "[1] Doe J"}
NumberedLines ==
    {"1. Introduction", "1. introduction", "1. our method", "1. Smith A",
     "2. Related work"}

\* what comes before and after such a line on its page
Leads == {"", "a b c d\n"}
Follows == {"", "\na b c d", "\n2. Jones B", "\n2. Jones B\n3. Kim C"}

HeaderDocs ==
    {Copies(PlainPage, k) \o <<lead \o line \o follow>> :
        k \in 0..MaxLead, lead \in Leads,
        line \in HeaderLines \cup NumberedLines, follow \in Follows}

InitHeaders ==
    /\ pc = "call"
    /\ file = NoFile
    /\ paper_type = "short"
    /\ page_texts \in HeaderDocs
    /\ full_text = ""
    /\ total_pages = 0
    /\ content_pages = 0
    /\ content_end = <<>>
    /\ issues = <<>>
    /\ result = None
    /\ NoDirectory
    /\ NoMail
    /\ NoReviews
    /\ NoProperties
    /\ NoCli

SpecHeaders == InitHeaders /\ [][NextContentPages]_vars

\* the alternatives of the section pattern other than the numbered-reference
\* one, and a line that one of them matches as the section pattern is
\* applied (IGNORECASE | MULTILINE)
header_alternatives ==
    LET all == limitations_alternatives \o ethics_alternatives
               \o references_alternatives \o appendix_alternatives
        IsHeader(r) == r # numbered_one_pattern
    IN  SelectSeq(all, IsHeader)
MatchesHeader(line) ==
    \E k \in 1..Len(header_alternatives) :
        re_search(header_alternatives[k], line, IGNORECASE_MULTILINE)
\* a line that the section pattern matches by its numbered-reference
\* alternative only
OnlyNumbered(line) ==
    /\ re_search(numbered_one_pattern, line, IGNORECASE_MULTILINE)
    /\ ~MatchesHeader(line)

\* C23: a line that matches a Limitations, Ethics, References/Bibliography
\* or Appendix header alternative of the section pattern is accepted as the
\* boundary on its first occurrence, without corroboration, whatever section
\* number is in front of it (the number 1 too): the boundary is never after
\* such a line.
C23_HeaderAccepted ==
    pc = "ret" =>
        \A pos \in Positions(page_texts) :
            MatchesHeader(LineAt(page_texts, pos)) =>
                /\ content_end # <<>>
                /\ ~Before(pos, BoundaryPos)

\* '1. References' alone on the first page of content: passed over for want
\* of a second reference line, no boundary, every page counted
C23_Witness ==
    /\ pc = "ret"
    /\ page_texts = <<"1. References">>
    /\ content_end = <<>>
    /\ content_pages = 1

\* C24: every line whose only match against the case-insensitive section
\* pattern is the numbered-reference alternative goes through the
\* corroboration check before it is accepted as the boundary: such a line is
\* the boundary only if at least 2 of the up-to-5 lines from it on have the
\* numbered or bracket shape.
C24_NumberedCorroborated ==
    (pc = "ret" /\ content_end # <<>>
        /\ OnlyNumbered(LineAt(page_texts, BoundaryPos))) =>
        ShapedLines(LinesAt(page_texts, BoundaryPos),
                    BoundaryPos[2], BoundaryPos[2] + 4) >= 2

\* '1. introduction' after a line of prose on the second page: the boundary,
\* with no reference line near it
C24_Witness ==
    /\ pc = "ret"
    /\ page_texts = <<PlainPage, "a b c d\n1. introduction\na b c d">>
    /\ content_end # <<>>
    /\ BoundaryPos = <<1, 1>>
    /\ content_pages = 1

----------------------------------------------------------------------------
\* where the first match of shape k starts in the text, and where it ends
FirstStart(k, text) ==
    CHOOSE p \in 0..Len(text) :
        /\ Ends(ethical_patterns[k], text, p, IGNORECASE_MULTILINE) # <<>>
        /\ \A q \in 0..(p - 1) :
              Ends(ethical_patterns[k], text, q, IGNORECASE_MULTILINE) = <<>>
FirstEnd(k, text) ==
    Ends(ethical_patterns[k], text, FirstStart(k, text), IGNORECASE_MULTILINE)[1]
\* the first shape, in list order, that matches somewhere
FirstShape(text) ==
    CHOOSE k \in MatchingShapes(text) : \A j \in MatchingShapes(text) : k <= j

\* C25: _check_ethical_considerations tries its header patterns in list
\* order and reports the first match, in the text, of the first pattern that
\* matches at all; a later pattern is not consulted once an earlier one has
\* matched, even if it matches at an earlier place of the text.
C25_FirstPatternWins ==
    (pc = "ret" /\ MatchingShapes(full_text) # {}) =>
        LET k == FirstShape(full_text)
            m == [start |-> FirstStart(k, full_text),
                  end |-> FirstEnd(k, full_text)]
        IN  /\ Len(issues) = 1
            /\ issues[1].details =
                  found_details(strip(slice(full_text, m.start, m.end)),
                                context_of(full_text, m, ETHICS_CONTEXT_WIDTH))

\* 'see ethics' before '5 Ethical Considerations': the last shape matches on
\* the first line, the first shape on the second, and the second line is
\* reported
C25_Witness ==
    /\ pc = "ret"
    /\ page_texts = <<"see ethics", "5 Ethical Considerations">>
    /\ FirstShape(full_text) = 1
    /\ \E j \in MatchingShapes(full_text) :
          j > 1 /\ FirstStart(j, full_text) < FirstStart(1, full_text)
    /\ issues[1].details =
          found_details("5 Ethical Considerations",
                        "see ethics 5 Ethical Considerations")

----------------------------------------------------------------------------
\* C26: for every non-empty list of page texts _calculate_content_pages
\* returns at least 1.
C26_AtLeastOne ==
    (pc = "ret" /\ page_texts # <<>>) => content_pages >= 1

\* a document of one page with References as its first line: 0
C26_Witness ==
    /\ pc = "ret"
    /\ page_texts = <<"References">>
    /\ content_end # <<>>
    /\ BoundaryPos = <<0, 0>>
    /\ content_pages = 0

\* how many of the lines before the boundary, on its page, have more than
\* 3 words
ProseBefore ==
    LET lines == LinesAt(page_texts, BoundaryPos)
    IN  Cardinality({j \in 1..BoundaryPos[2] : word_count(lines[j]) > 3})

\* C27: a boundary at line index 5 or lower on its page is always page-start,
\* so that a boundary within the first six non-empty lines of page p gives a
\* count of exactly p; a boundary at line index 6 to 10 is mid-page iff at
\* least 6 of the lines before it on that page have more than 3 words.
C27_EarlyBoundary ==
    (pc = "ret" /\ content_end # <<>>) =>
        /\ BoundaryPos[2] <= 5 =>
              /\ ~content_end[1].is_mid_page
              /\ content_pages = BoundaryPos[1]
        /\ BoundaryPos[2] \in 6..10 =>
              /\ content_end[1].is_mid_page <=> ProseBefore >= 6
              /\ content_pages =
                    IF ProseBefore >= 6 THEN BoundaryPos[1] + 1
                    ELSE BoundaryPos[1]

\* five lines of prose and then the header, on the third page: page-start
C27_Witness ==
    /\ pc = "ret"
    /\ content_end # <<>>
    /\ BoundaryPos = <<2, 5>>
    /\ ProseBefore = 5
    /\ ~content_end[1].is_mid_page
    /\ content_pages = 2

\* six lines of prose and then the header: mid-page
C27_WitnessSixth ==
    /\ pc = "ret"
    /\ content_end # <<>>
    /\ BoundaryPos[2] = 6
    /\ ProseBefore = 6
    /\ content_pages = BoundaryPos[1] + 1

\* ten lines, five of them prose, and then the header: page-start
C27_WitnessTenth ==
    /\ pc = "ret"
    /\ content_end # <<>>
    /\ BoundaryPos[2] = 10
    /\ ProseBefore = 5
    /\ content_pages = BoundaryPos[1]

----------------------------------------------------------------------------
(***************************************************************************)
(* _calculate_content_pages called again after the pages that come after   *)
(* the boundary page were changed                                          *)
(***************************************************************************)
\* what the pages after the boundary page are replaced by: nothing, prose,
\* a page with a header, references and prose, prose and a header
LaterPages ==
    {<<>>, <<PlainPage>>, <<"Limitations\na b c d">>,
     <<ReferencePage, PlainPage>>, <<PlainPage, "References">>}

\* the pages after the boundary page are removed, added or changed; the
\* result of the first call is kept to compare
ChangeLaterPages ==
    /\ pc = "ret"
    /\ content_end # <<>>
    /\ \E later \in LaterPages :
          /\ page_texts' = SubSeq(page_texts, 1, content_end[1].page_idx + 1)
                              \o later
          /\ page_texts' # page_texts
    /\ pc' = "changed"
    /\ UNCHANGED <<file, paper_type, full_text, total_pages, content_pages,
                   content_end, issues, result,
                   dir_vars, mail_vars, review_vars, property_vars, cli_vars>>

\* the second call, on the changed list
CallCalculateContentPagesAgain ==
    /\ pc = "changed"
    /\ content_end' = content_end_of(page_texts)
    /\ content_pages' = calculate_content_pages(page_texts)
    /\ pc' = "ret_again"
    /\ UNCHANGED <<file, paper_type, page_texts, full_text, total_pages,
                   issues, result,
                   dir_vars, mail_vars, review_vars, property_vars, cli_vars>>

NextLaterPages ==
    \/ CallCalculateContentPages
    \/ ChangeLaterPages
    \/ CallCalculateContentPagesAgain

SpecLaterPages == InitContentPages /\ [][NextLaterPages]_vars

\* C28: when a boundary is accepted on page p the count depends on the pages
\* 0..p only: after the pages that follow p were changed, added or removed,
\* _calculate_content_pages returns the same count, for the same boundary.
C28_LaterPagesIgnored ==
    [][pc = "changed" =>
          /\ content_pages' = content_pages
          /\ content_end' = content_end]_vars

\* a header put on a page after a mid-page boundary, and the count as before
C28_Witness ==
    /\ pc = "ret_again"
    /\ content_end # <<>>
    /\ content_end[1].is_mid_page
    /\ Len(page_texts) = content_end[1].page_idx + 3
    /\ page_texts[Len(page_texts)] = "References"
    /\ content_pages = content_end[1].page_idx + 1

\* the pages after the boundary page removed
C28_WitnessRemoved ==
    /\ pc = "ret_again"
    /\ content_end # <<>>
    /\ Len(page_texts) = content_end[1].page_idx + 1
    /\ content_pages = content_end[1].page_idx
    /\ content_pages >= 1

----------------------------------------------------------------------------
(***************************************************************************)
(* check_pdf with an exception raised after the extraction: by a detector  *)
(* (a MemoryError, say) or by the close of the document when the with      *)
(* block is left                                                           *)
(***************************************************************************)
\* the message of the issue that the except clause appends
FailureMessage(e) == "Failed to process PDF: " \o e
IsFailureIssue(issue) ==
    /\ issue.issue_type = "page_limit"
    /\ issue.severity = "error"
    /\ \E e \in {"cannot open", "cannot extract", "error"} :
          issue.message = FailureMessage(e)

\* the except clause has run
Absorbed == issues # <<>> /\ IsFailureIssue(issues[Len(issues)])

\* an exception is raised by the statement that comes next in the try block
RaisedLater ==
    \/ pc \in {"counted", "page_limits", "limitations", "anonymization",
               "broken_references"}
    \/ pc = "checked" /\ ~Absorbed

\* the except clause, after the extraction
FailLater ==
    /\ RaisedLater
    /\ issues' = Append(issues, Issue("page_limit", "error",
                                      FailureMessage("error"), None))
    /\ total_pages' = 0
    /\ content_pages' = 0
    /\ pc' = "checked"
    /\ UNCHANGED <<file, paper_type, page_texts, full_text, content_end, result,
                   dir_vars, mail_vars, review_vars, property_vars, cli_vars>>

NextAbsorb ==
    \/ Next
    \/ FailLater

SpecAbsorb == Init /\ [][NextAbsorb]_vars

\* C29: whenever check_pdf absorbs an exception, at whatever step it was
\* raised (after detectors have appended their issues too), the result has
\* total_pages = 0, content_pages = 0 and an issues list that holds the
\* failure issue only.
C29_OnlyFailureIssue ==
    (pc = "returned" /\ \E i \in 1..Len(result.issues) :
                            IsFailureIssue(result.issues[i])) =>
        /\ result.total_pages = 0
        /\ result.content_pages = 0
        /\ Len(result.issues) = 1

\* an exception raised after detectors appended their issues: the result
\* holds those issues and then the failure
C29_Witness ==
    /\ pc = "returned"
    /\ file.ok
    /\ result.total_pages = 0
    /\ result.content_pages = 0
    /\ Len(result.issues) >= 3
    /\ IsFailureIssue(result.issues[Len(result.issues)])
    /\ ~IsFailureIssue(result.issues[1])

----------------------------------------------------------------------------
(***************************************************************************)
(* The missing-reviews command, from the list that get_missing_reviews     *)
(* returned on: the --test-email check, the reminder emails (by the        *)
(* actions of send_reminder_emails above) and the forum comments (by       *)
(* post_ac_comment).                                                       *)
(***************************************************************************)
MaxMissing == 3

\* --send-email: not given, an address, an address without a domain;
\* --test-email: not given, an address; --post-comment: a flag
Options ==
    {[send_email |-> s, test_email |-> t, post_comment |-> c] :
        s \in {None, "me@x.org", "me"}, t \in {None, "t@x.org"},
        c \in BOOLEAN}

\* a value that Python takes for true
Truthy(v) == v \notin {None, ""}

\* the entries of two papers: a reviewer with an address, a reviewer known
\* by the profile id who declared an emergency, and on the second paper a
\* reviewer with a masked address
MissingEntry(number, reviewer_email, flag) ==
    [paper_id |-> "p" \o ToString(number), paper_number |-> number,
     paper_title |-> "T" \o ToString(number),
     reviewer_id |-> reviewer_email, reviewer_email |-> reviewer_email,
     reviewer_name |-> reviewer_email, flag |-> flag]
CliEntries ==
    {MissingEntry(n, "a@x.org", "") : n \in 1..2}
    \cup {MissingEntry(n, "~R2", "Emergency") : n \in 1..2}
    \cup {MissingEntry(2, "m***@x.org", "")}

\* the lists get_missing_reviews returns: paper after paper, a reviewer once
\* per paper
MissingLists ==
    {q \in SeqsUpTo(CliEntries, MaxMissing) :
        \A j, k \in 1..Len(q) :
            j < k => /\ q[j].paper_number <= q[k].paper_number
                     /\ q[j] # q[k]}

\* the Area_Chair_ groups of a paper and whether post_note_edit goes through
AcUser == "~AC"
AcFound == [anon_groups |-> <<Group("ac0", <<>>), Group("ac1", <<"~Other">>),
                              Group("ac2", <<"~Other", "~AC">>)>>,
            post_ok |-> TRUE]
AcMissing == [anon_groups |-> <<Group("ac1", <<"~Other">>)>>, post_ok |-> TRUE]
AcRefused == [anon_groups |-> <<Group("ac2", <<"~AC">>)>>, post_ok |-> FALSE]
AcClients ==
    {[ac |-> <<AcFound, AcFound>>], [ac |-> <<AcMissing, AcFound>>],
     [ac |-> <<AcRefused, AcFound>>], [ac |-> <<AcFound, AcMissing>>]}

InitCli ==
    /\ pc = "cli_display"
    /\ options \in Options
    /\ missing \in MissingLists
    /\ client \in AcClients
    /\ smtp \in {[login_ok |-> FALSE, rejects |-> {}],
                 [login_ok |-> TRUE, rejects |-> {}],
                 [login_ok |-> TRUE, rejects |-> {1}]}
    /\ prompts = <<>>
    /\ comment_calls = <<>>
    /\ posted = <<>>
    /\ missing_entries = <<>>
    /\ test_email = None
    /\ entry_idx = 0
    /\ sendmail_calls = <<>>
    /\ email_results = <<>>
    /\ paper_ids = <<>>
    /\ paper_idx = 0
    /\ paper_missing = <<>>
    /\ file = NoFile
    /\ paper_type = "short"
    /\ page_texts = <<>>
    /\ full_text = ""
    /\ total_pages = 0
    /\ content_pages = 0
    /\ content_end = <<>>
    /\ issues = <<>>
    /\ result = None
    /\ NoDirectory
    /\ NoProperties

\* if not missing: return
NothingMissing ==
    /\ pc = "cli_display"
    /\ missing = <<>>
    /\ pc' = "cli_returned"
    /\ UNCHANGED <<pdf_vars, dir_vars, mail_vars, review_vars, property_vars,
                   cli_vars>>

\* test_email and not send_email
TestEmailAlone == Truthy(options.test_email) /\ ~Truthy(options.send_email)

\* a slip: the check of --test-email reports and goes on
AbortTestEmailGoingOn ==
    /\ pc = "cli_display"
    /\ missing # <<>>
    /\ TestEmailAlone
    /\ pc' = "cli_comment"
    /\ UNCHANGED <<pdf_vars, dir_vars, mail_vars, review_vars, property_vars,
                   cli_vars>>

\* --test-email requires --send-email: raise click.Abort()
AbortTestEmail ==
    /\ pc = "cli_display"
    /\ missing # <<>>
    /\ TestEmailAlone
    /\ pc' = "cli_aborted"
    /\ UNCHANGED <<pdf_vars, dir_vars, mail_vars, review_vars, property_vars,
                   cli_vars>>

\* a confirmation and its answer
Prompt(question, answer) == [question |-> question, answer |-> answer]

\* a slip: a declined confirmation only skips the emails
ConfirmSendSkipping ==
    /\ pc = "cli_display"
    /\ missing # <<>>
    /\ Truthy(options.send_email)
    /\ \E answer \in BOOLEAN :
          /\ prompts' = Append(prompts, Prompt("send", answer))
          /\ IF ~answer
             THEN /\ pc' = "cli_comment"
                  /\ UNCHANGED <<missing_entries, test_email>>
             ELSE IF ~contains(options.send_email, "@")
             THEN /\ pc' = "cli_raised"
                  /\ UNCHANGED <<missing_entries, test_email>>
             ELSE /\ pc' = "mail_start"
                  /\ missing_entries' = missing
                  /\ test_email' = options.test_email
    /\ UNCHANGED <<pdf_vars, dir_vars, smtp, entry_idx, sendmail_calls,
                   email_results, review_vars, property_vars, options,
                   comment_calls, posted>>

\* if send_email: the confirmation; declined, the command returns; confirmed,
\* send_reminder_emails is called (_get_smtp_server raises IndexError on a
\* sender without '@', and nothing catches it)
ConfirmSend ==
    /\ pc = "cli_display"
    /\ missing # <<>>
    /\ Truthy(options.send_email)
    /\ \E answer \in BOOLEAN :
          /\ prompts' = Append(prompts, Prompt("send", answer))
          /\ IF ~answer
             THEN /\ pc' = "cli_returned"
                  /\ UNCHANGED <<missing_entries, test_email>>
             ELSE IF ~contains(options.send_email, "@")
             THEN /\ pc' = "cli_raised"
                  /\ UNCHANGED <<missing_entries, test_email>>
             ELSE /\ pc' = "mail_start"
                  /\ missing_entries' = missing
                  /\ test_email' = options.test_email
    /\ UNCHANGED <<pdf_vars, dir_vars, smtp, entry_idx, sendmail_calls,
                   email_results, review_vars, property_vars, options,
                   comment_calls, posted>>

\* send_email not given: on to the comments
NoSend ==
    /\ pc = "cli_display"
    /\ missing # <<>>
    /\ ~TestEmailAlone
    /\ ~Truthy(options.send_email)
    /\ pc' = "cli_comment"
    /\ UNCHANGED <<pdf_vars, dir_vars, mail_vars, review_vars, property_vars,
                   cli_vars>>

\* send_reminder_emails returned and its results are printed
PrintEmailResults ==
    /\ pc = "mail_returned"
    /\ pc' = "cli_comment"
    /\ UNCHANGED <<pdf_vars, dir_vars, mail_vars, review_vars, property_vars,
                   cli_vars>>

\* post_comment not given
NoComment ==
    /\ pc = "cli_comment"
    /\ ~options.post_comment
    /\ pc' = "cli_returned"
    /\ UNCHANGED <<pdf_vars, dir_vars, mail_vars, review_vars, property_vars,
                   cli_vars>>

\* a slip: a paper for every entry
RECURSIVE papers_of_entries(_, _)
papers_of_entries(entries, seen) ==
    IF entries = <<>> THEN <<>>
    ELSE <<[paper_id |-> Head(entries).paper_id,
            paper_number |-> Head(entries).paper_number,
            paper_title |-> Head(entries).paper_title]>>
         \o papers_of_entries(Tail(entries), seen)

\* the dict papers: the papers of the entries, each once, in the order of
\* their first entries (seen: the paper ids that are keys already)
RECURSIVE papers_of(_, _)
papers_of(entries, seen) ==
    IF entries = <<>> THEN <<>>
    ELSE IF Head(entries).paper_id \in seen
         THEN papers_of(Tail(entries), seen)
         ELSE <<[paper_id |-> Head(entries).paper_id,
                 paper_number |-> Head(entries).paper_number,
                 paper_title |-> Head(entries).paper_title]>>
              \o papers_of(Tail(entries),
                           seen \cup {Head(entries).paper_id})

\* if post_comment: the papers are listed and the confirmation is asked
ConfirmComment ==
    /\ pc = "cli_comment"
    /\ options.post_comment
    /\ \E answer \in BOOLEAN :
          /\ prompts' = Append(prompts, Prompt("comment", answer))
          /\ pc' = IF answer THEN "cli_posting" ELSE "cli_returned"
    /\ UNCHANGED <<pdf_vars, dir_vars, mail_vars, review_vars, property_vars,
                   options, comment_calls, posted>>

\* post_ac_comment: the id of the first Area_Chair_ group with the user
\* among its members, or None
ac_anon_id(anon_groups, user_id) ==
    LET mine == {k \in 1..Len(anon_groups) :
                    \E j \in 1..Len(anon_groups[k].members) :
                        anon_groups[k].members[j] = user_id}
    IN  IF mine = {} THEN None
        ELSE anon_groups[CHOOSE k \in mine : \A j \in mine : k <= j].id

\* (paper_number, True) and (paper_number, False, error_msg)
CommentTuple(paper_number, success, error) ==
    [paper_number |-> paper_number, success |-> success, error |-> error]

\* what post_ac_comment returns for a paper
post_ac_comment(paper) ==
    LET ac == client.ac[paper.paper_number]
    IN  IF ac_anon_id(ac.anon_groups, AcUser) = None
        THEN CommentTuple(paper.paper_number, FALSE,
                          "Could not find AC anonymous ID for this paper")
        ELSE IF ac.post_ok
        THEN CommentTuple(paper.paper_number, TRUE, None)
        ELSE CommentTuple(paper.paper_number, FALSE, "error")

\* one turn of the loop over the papers: post_ac_comment is called, and it
\* hands a note to post_note_edit if it found the group
PostComment ==
    /\ pc = "cli_posting"
    /\ Len(comment_calls) < Len(papers_of(missing, {}))
    /\ LET paper == papers_of(missing, {})[Len(comment_calls) + 1]
           ac == client.ac[paper.paper_number]
           anon_id == ac_anon_id(ac.anon_groups, AcUser)
       IN  /\ comment_calls' =
                 Append(comment_calls,
                        [paper_id |-> paper.paper_id,
                         paper_number |-> paper.paper_number,
                         result |-> post_ac_comment(paper)])
           /\ posted' =
                 IF anon_id = None THEN posted
                 ELSE Append(posted,
                             [forum |-> paper.paper_id,
                              replyto |-> paper.paper_id,
                              signatures |-> <<anon_id>>,
                              accepted |-> ac.post_ok])
    /\ UNCHANGED <<pc, pdf_vars, dir_vars, mail_vars, review_vars,
                   property_vars, options, prompts>>

\* the loop is over
DonePosting ==
    /\ pc = "cli_posting"
    /\ Len(comment_calls) = Len(papers_of(missing, {}))
    /\ pc' = "cli_returned"
    /\ UNCHANGED <<pdf_vars, dir_vars, mail_vars, review_vars, property_vars,
                   cli_vars>>

NextCli ==
    \/ NothingMissing
    \/ AbortTestEmail
    \/ ConfirmSend
    \/ NoSend
    \/ NextMail
    \/ PrintEmailResults
    \/ NoComment
    \/ ConfirmComment
    \/ PostComment
    \/ DonePosting

SpecCli == InitCli /\ [][NextCli]_vars

----------------------------------------------------------------------------
\* the confirmation was asked and got the answer
Answered(question, answer) ==
    \E i \in 1..Len(prompts) : prompts[i] = Prompt(question, answer)
Asked(question) == \E i \in 1..Len(prompts) : prompts[i].question = question

\* C21: in the missing-reviews command no reminder email is sent unless
\* --send-email was given and the send confirmation was answered yes; no
\* forum comment is posted unless --post-comment was given and the comment
\* confirmation was answered yes; --test-email without --send-email aborts
\* before anything is sent or posted.
C21_OnlyWhenConfirmed ==
    /\ sendmail_calls # <<>> =>
          /\ Truthy(options.send_email)
          /\ Answered("send", TRUE)
    /\ (comment_calls # <<>> \/ posted # <<>>) =>
          /\ options.post_comment
          /\ Answered("comment", TRUE)
    /\ (Truthy(options.test_email) /\ ~Truthy(options.send_email)) =>
          /\ pc \in {"cli_display", "cli_returned", "cli_aborted"}
          /\ pc = "cli_returned" => missing = <<>>
          /\ prompts = <<>>
          /\ sendmail_calls = <<>>
          /\ comment_calls = <<>>
          /\ posted = <<>>

\* emails sent after a yes, and the comments declined: no comment
C21_Witness ==
    /\ pc = "cli_returned"
    /\ options.post_comment
    /\ prompts = <<Prompt("send", TRUE), Prompt("comment", FALSE)>>
    /\ Len(sendmail_calls) >= 2
    /\ comment_calls = <<>>
    /\ posted = <<>>

\* --test-email and --post-comment without --send-email: aborted
C21_WitnessAbort ==
    /\ pc = "cli_aborted"
    /\ options.post_comment
    /\ options.test_email = "t@x.org"
    /\ options.send_email = None
    /\ missing # <<>>
    /\ prompts = <<>>

\* the calls of post_ac_comment for a paper
CallsForPaper(pid) ==
    {c \in 1..Len(comment_calls) : comment_calls[c].paper_id = pid}
MissingPapers == {missing[k].paper_id : k \in 1..Len(missing)}

\* C22: when comment posting is confirmed the command calls post_ac_comment
\* exactly once per distinct paper with a missing review, also when several
\* reviewers are missing on a paper, and a failure on one paper does not stop
\* the posting on the papers after it.
C22_OncePerPaper ==
    /\ \A pid \in MissingPapers : Cardinality(CallsForPaper(pid)) <= 1
    /\ \A c \in 1..Len(comment_calls) :
          comment_calls[c].paper_id \in MissingPapers
    /\ (pc = "cli_returned" /\ Answered("comment", TRUE)) =>
          /\ \A pid \in MissingPapers : Cardinality(CallsForPaper(pid)) = 1
          /\ Len(comment_calls) = Cardinality(MissingPapers)

\* two reviewers missing on the first paper and one on the second; the
\* posting fails on the first paper and goes through on the second
C22_Witness ==
    /\ pc = "cli_returned"
    /\ Len(missing) = 3
    /\ missing[1].paper_id = "p1"
    /\ missing[2].paper_id = "p1"
    /\ missing[3].paper_id = "p2"
    /\ Len(comment_calls) = 2
    /\ ~comment_calls[1].result.success
    /\ comment_calls[2].result.success
    /\ Len(posted) = 1

\* C30: when both --send-email and --post-comment are given and the user
\* declines the email confirmation, the command ends at once: the comment
\* confirmation is not offered and no comment is posted (and no email sent).
C30_DeclinedEndsAtOnce ==
    (Truthy(options.send_email) /\ options.post_comment
        /\ Answered("send", FALSE)) =>
        /\ pc = "cli_returned"
        /\ ~Asked("comment")
        /\ comment_calls = <<>>
        /\ posted = <<>>
        /\ sendmail_calls = <<>>

C30_Witness ==
    /\ pc = "cli_returned"
    /\ options.send_email = "me@x.org"
    /\ options.post_comment
    /\ missing # <<>>
    /\ prompts = <<Prompt("send", FALSE)>>
    /\ comment_calls = <<>>
============================================================================
